---- MODULE Spec2Model ----
(***************************************************************************)
(* msigner: PSBT construction for ordinal swaps (2-dummy layout).          *)
(* Model of src/src/signer.ts, src/src/util.ts, src/src/constant.ts and    *)
(* vendors/feeprovider.ts (src/unnamed/part_001).                          *)
(*                                                                         *)
(* Strings are sequences of character codes, so that split(':'),           *)
(* parseInt/Number and the txid <-> hash byte reversal are computed.       *)
(***************************************************************************)
EXTENDS Integers, Sequences, FiniteSets, TLC

(***************************************************************************)
(* Bounds of the model                                                     *)
(***************************************************************************)
\* longest list of payment UTXOs the caller attaches to listing.buyer
MaxPayments == 2
\* most invocations of the merge on one pair of signed PSBTs
MaxMergeCalls == 2
\* longest address UTXO list handed to the selection routines
MaxUtxos == 3
\* most invocations of the verification on one request
MaxVerifyCalls == 2
\* most calls of getDefaultRPC and setDefaultRPC by one session
MaxRpcCalls == 2

(***************************************************************************)
(* Program constants                                                       *)
(***************************************************************************)
BUYING_PSBT_SELLER_SIGNATURE_INDEX == 2
BUYING_PSBT_BUYER_RECEIVE_INDEX == 1
BUYING_PSBT_PLATFORM_FEE_INDEX == 3
DUMMY_UTXO_VALUE == 600
DUMMY_UTXO_MAX_VALUE == 1000
DUMMY_UTXO_MIN_VALUE == 580
ORDINALS_POSTAGE_VALUE == 10000
\* bitcoin.Transaction.SIGHASH_SINGLE | SIGHASH_ANYONECANPAY = 0x03 | 0x80
SIGHASH_SINGLE_ANYONECANPAY == 131
\* ChainNetwork.dustLimit of every built-in chain profile
dustLimit == 546
\* legacy transaction sizes of calculateTxBytesFeeWithRate
baseTxSize == 10
inSize == 180
outSize == 34

\* an optional field is a sequence of length at most one
Absent == <<>>
Some(x) == <<x>>
IsSome(o) == o # <<>>

(***************************************************************************)
(* Strings as sequences of character codes                                 *)
(***************************************************************************)
Colon == 58
Digit0 == 48

\* s.split(sep)[k] for k = 0, 1, 2: fields are cut at every separator
RECURSIVE SplitFrom(_, _, _, _)
SplitFrom(s, sep, i, cur) ==
    IF i > Len(s) THEN <<cur>>
    ELSE IF s[i] = sep THEN <<cur>> \o SplitFrom(s, sep, i + 1, <<>>)
    ELSE SplitFrom(s, sep, i + 1, Append(cur, s[i]))

split(s, sep) == SplitFrom(s, sep, 1, <<>>)

\* parseInt(s) / Number(s) of a string of decimal digits
RECURSIVE ParseFrom(_, _, _)
ParseFrom(s, i, acc) ==
    IF i > Len(s) THEN acc
    ELSE ParseFrom(s, i + 1, acc * 10 + (s[i] - Digit0))

parseInt(s) == ParseFrom(s, 1, 0)

Reverse(s) == [i \in 1..Len(s) |-> s[Len(s) + 1 - i]]

\* value of one hexadecimal character ('0'..'9', 'a'..'f')
HexVal(c) == IF c >= 97 THEN c - 87 ELSE c - Digit0
HexChar(v) == IF v >= 10 THEN v + 87 ELSE v + Digit0

\* Buffer.from(txid, 'hex'): two characters per byte
HexToBytes(s) == [i \in 1..(Len(s) \div 2) |-> HexVal(s[2 * i - 1]) * 16 + HexVal(s[2 * i])]

\* buf.toString('hex')
BytesToHex(b) ==
    [i \in 1..(2 * Len(b)) |->
        IF i % 2 = 1 THEN HexChar(b[(i + 1) \div 2] \div 16)
        ELSE HexChar(b[i \div 2] % 16)]

\* the hash bitcoinjs stores for an input given by txid: reversed byte order
HashFromTxid(txid) == Reverse(HexToBytes(txid))

\* generateTxidFromHash: Buffer.from(hash).reverse().toString('hex')
generateTxidFromHash(hash) == BytesToHex(Reverse(hash))

RECURSIVE SumValues(_)
SumValues(s) == IF s = <<>> THEN 0 ELSE s[1].value + SumValues(Tail(s))

(***************************************************************************)
(* Chain parameters, addresses and scripts                                 *)
(***************************************************************************)
bitcoin == [name |-> "bitcoin", pubKeyHash |-> 0, scriptHash |-> 5, bech32 |-> "bc"]
junkcoinMainnet == [name |-> "junkcoin", pubKeyHash |-> 16, scriptHash |-> 5, bech32 |-> "jc"]
litecoinMainnet == [name |-> "litecoin", pubKeyHash |-> 48, scriptHash |-> 50, bech32 |-> "ltc"]
dogecoinMainnet == [name |-> "dogecoin", pubKeyHash |-> 30, scriptHash |-> 22, bech32 |-> ""]

\* an address string by what it decodes to: its encoding, its human-readable
\* part, its version, its hash or program and the length of that in bytes
Address(enc, hrp, version, hash, len) ==
    [enc |-> enc, hrp |-> hrp, version |-> version, hash |-> hash, len |-> len]

\* a base58check address (version byte, 20-byte hash) or a bech32 address
\* (human-readable part, witness version, program) of a key hash or a key
Base58(version, hash) == Address("base58", "", version, hash, 20)
Bech32(hrp, witver, prog) == Address("bech32", hrp, witver, prog, IF witver = 0 THEN 20 ELSE 32)

NoAddress == Address("", "", 0, 0, 0)
NoScript == [type |-> "", hash |-> 0]

\* bitcoin.address.toOutputScript, as psbt.addOutput({address, value}) uses it
toOutputScript(address, network) ==
    IF address.enc = "base58" /\ address.version = network.pubKeyHash
        THEN [type |-> "p2pkh", hash |-> address.hash]
    ELSE IF address.enc = "base58" /\ address.version = network.scriptHash
        THEN [type |-> "p2sh", hash |-> address.hash]
    ELSE IF address.enc = "bech32" /\ address.hrp = network.bech32 /\ address.version = 0
        THEN [type |-> "p2wpkh", hash |-> address.hash]
    ELSE IF address.enc = "bech32" /\ address.hrp = network.bech32 /\ address.version = 1
        THEN [type |-> "p2tr", hash |-> address.hash]
    ELSE NoScript

\* bitcoin.address.fromOutputScript, as psbt.txOutputs[i].address uses it
fromOutputScript(script, network) ==
    IF script.type = "p2pkh" THEN Base58(network.pubKeyHash, script.hash)
    ELSE IF script.type = "p2sh" THEN Base58(network.scriptHash, script.hash)
    ELSE IF script.type = "p2wpkh" THEN Bech32(network.bech32, 0, script.hash)
    ELSE IF script.type = "p2tr" THEN Bech32(network.bech32, 1, script.hash)
    ELSE NoAddress

\* bitcoin.address.fromBase58Check: the payload must be a version byte and
\* 20 bytes, or the decoding throws
fromBase58Check(address) ==
    IF address.enc = "base58" /\ address.len = 20
    THEN Some([version |-> address.version, hashLength |-> address.len])
    ELSE Absent

\* bitcoin.address.fromBech32: any human-readable part is decoded
fromBech32(address) ==
    IF address.enc = "bech32"
    THEN Some([version |-> address.version, prefix |-> address.hrp,
               dataLength |-> address.len])
    ELSE Absent

isP2SHAddress(address, network) ==
    LET decoded == fromBase58Check(address)
    IN /\ IsSome(decoded)
       /\ decoded[1].version = network.scriptHash
       /\ decoded[1].hashLength = 20

isP2PKHAddress(address, network) ==
    LET decoded == fromBase58Check(address)
    IN /\ IsSome(decoded)
       /\ decoded[1].version = network.pubKeyHash
       /\ decoded[1].hashLength = 20

getAddressType(address, network) ==
    IF isP2PKHAddress(address, network) THEN "p2pkh"
    ELSE IF isP2SHAddress(address, network) THEN "p2sh"
    ELSE LET decoded == fromBech32(address)
         IN IF network.bech32 # "" /\ IsSome(decoded)
            THEN IF decoded[1].version = 0
                 THEN (IF decoded[1].dataLength = 20 THEN "p2wpkh" ELSE "p2wsh")
                 ELSE IF decoded[1].version = 1 THEN "p2tr" ELSE "unknown"
            ELSE "unknown"

isValidAddress(address, network) == getAddressType(address, network) # "unknown"

\* toXOnly: a 32-byte key is kept, any other loses its first byte (subarray(1, 33))
toXOnly(pubKey) == IF Len(pubKey) = 32 THEN pubKey ELSE SubSeq(pubKey, 2, 33)

\* hash160 of a public key or of a script, an injective code on the values used
Hash160(bytes) == bytes[1] * 1000 + bytes[2] * 10 + Len(bytes)

\* bitcoin.payments.p2wpkh({pubkey}).output
p2wpkhOutput(pubkey) == [type |-> "p2wpkh", hash |-> Hash160(pubkey)]

\* bitcoin.payments.p2sh({redeem: {output}}).output
p2shOutput(redeem) == [type |-> "p2sh", hash |-> Hash160(<<redeem.hash, 22>>)]

(***************************************************************************)
(* Fee provider and fee arithmetic                                         *)
(***************************************************************************)
\* StaticFeeProvider of the README: an unrecognised tier falls back to hourFee
getFees(feeRateTier) ==
    CASE feeRateTier = "fastestFee" -> 10
      [] feeRateTier = "halfHourFee" -> 5
      [] feeRateTier = "hourFee" -> 2
      [] feeRateTier = "minimumFee" -> 1
      [] OTHER -> 2

\* a fee that forgets the slot of the change output
calculateTxBytesFeeNoChange(vinsLength, voutsLength, feeRate, includeChangeOutput) ==
    (baseTxSize + vinsLength * inSize + voutsLength * outSize) * feeRate

calculateTxBytesFeeWithRate(vinsLength, voutsLength, feeRate, includeChangeOutput) ==
    (baseTxSize + vinsLength * inSize + voutsLength * outSize
        + includeChangeOutput * outSize) * feeRate

\* a call that passes includeChangeOutput = 0
calculateTxBytesFeeNoSlot(vinsLength, voutsLength, feeRateTier) ==
    calculateTxBytesFeeWithRate(vinsLength, voutsLength, getFees(feeRateTier), 0)

\* includeChangeOutput defaults to 1 at every call site of signer.ts
calculateTxBytesFee(vinsLength, voutsLength, feeRateTier) ==
    calculateTxBytesFeeWithRate(vinsLength, voutsLength, getFees(feeRateTier), 1)

\* Math.floor((price * bp) / 10000); the product is split at 10000 so that it
\* stays within the integers of the checker: with price = 10000 q + r,
\* floor(price * bp / 10000) = q * bp + floor(r * bp / 10000)
FloorBp(price, bp) == (price \div 10000) * bp + ((price % 10000) * bp) \div 10000

\* a payout that forgets the postage of the inscription output
getSellerOrdOutputValueNoPostage(price, makerFeeBp, prevUtxoValue) ==
    price - FloorBp(price, makerFeeBp)

getSellerOrdOutputValue(price, makerFeeBp, prevUtxoValue) ==
    price - FloorBp(price, makerFeeBp) + prevUtxoValue

(***************************************************************************)
(* The providers' world: inscription items and raw transactions            *)
(***************************************************************************)
\* decimal rendering of a natural number, as the indexer renders vout and offset
RECURSIVE ToDigits(_)
ToDigits(n) == IF n < 10 THEN <<Digit0 + n>> ELSE Append(ToDigits(n \div 10), Digit0 + (n % 10))

\* a transaction id of two bytes, written in hexadecimal
TxidOf(n) == BytesToHex(<<n \div 256, n % 256>>)

\* IOrdItem: output is "txid:vout", location is "txid:vout:offset"
OrdItem(id, owner, txid, vout, offset, outputValue) ==
    [id |-> id, owner |-> owner,
     location |-> txid \o <<Colon>> \o ToDigits(vout) \o <<Colon>> \o ToDigits(offset),
     output |-> txid \o <<Colon>> \o ToDigits(vout),
     outputValue |-> outputValue]

XOnlyKey == [i \in 1..32 |-> i]
CompressedKey == <<2>> \o XOnlyKey
BuyerKey == <<3>> \o XOnlyKey

SellerTaprootAddress == Bech32("bc", 1, 7001)
SellerReceiveBitcoin == Bech32("bc", 0, 7002)
SellerJunkAddress == Base58(16, 7003)

ItemA == OrdItem("insA", SellerTaprootAddress, TxidOf(43794), 0, 0, 10000)
ItemB == OrdItem("insB", SellerJunkAddress, TxidOf(52532), 1, 3000, 10000)
ItemC == OrdItem("insC", SellerReceiveBitcoin, TxidOf(239), 0, 545, 546)
\* an item the indexer attributes to an address that does not hold its output
StaleOwnerAddress == Bech32("bc", 1, 7004)
ItemD == OrdItem("insD", StaleOwnerAddress, TxidOf(777), 0, 0, 10000)

\* the three sellers of the model: a taproot seller on bitcoin, a legacy
\* seller on junkcoin and a segwit seller whose inscription is the last
\* satoshi of its output
Scenarios ==
    { [network |-> bitcoin, ordItem |-> ItemA, sellerOrdAddress |-> SellerTaprootAddress,
       sellerReceiveAddress |-> SellerReceiveBitcoin, tapInternalKey |-> CompressedKey],
      [network |-> junkcoinMainnet, ordItem |-> ItemB, sellerOrdAddress |-> SellerJunkAddress,
       sellerReceiveAddress |-> SellerJunkAddress, tapInternalKey |-> Absent],
      [network |-> bitcoin, ordItem |-> ItemC, sellerOrdAddress |-> SellerReceiveBitcoin,
       sellerReceiveAddress |-> SellerReceiveBitcoin, tapInternalKey |-> Absent] }

\* a seller who lists the item the indexer no longer attributes to its holder
StaleScenario ==
    [network |-> bitcoin, ordItem |-> ItemD, sellerOrdAddress |-> SellerTaprootAddress,
     sellerReceiveAddress |-> SellerReceiveBitcoin, tapInternalKey |-> CompressedKey]

Items == {ItemA, ItemB, ItemC, ItemD}
ItemNetwork(item) == (CHOOSE sc \in Scenarios \cup {StaleScenario} : sc.ordItem = item).network

\* the address the chain says holds the inscription output
HolderOf(item) == IF item = ItemD THEN SellerTaprootAddress ELSE item.owner

\* an address UTXO (AddressTxsUtxo): outpoint, value and confirmation status
Utxo(n, vout, value, confirmed) ==
    [txid |-> TxidOf(n), vout |-> vout, value |-> value, status |-> [confirmed |-> confirmed]]

\* the outputs of the transaction the node returns for a txid: the parent of
\* an inscription holds the inscription output at its vout; the parent of a
\* wallet UTXO is described by that UTXO
ItemOuts(item) ==
    LET f == split(item.output, Colon)
        n == parseInt(f[2]) + 1
    IN [i \in 1..n |-> [script |-> toOutputScript(HolderOf(item), ItemNetwork(item)),
                        value |-> IF i = n THEN item.outputValue ELSE 1000]]

\* rpc.getrawtransaction(txid) followed by Transaction.fromHex
getrawtransaction(txid) ==
    IF \E it \in Items : split(it.output, Colon)[1] = txid
    THEN LET it == CHOOSE it \in Items : split(it.output, Colon)[1] = txid
         IN [txid |-> txid, outs |-> ItemOuts(it)]
    ELSE [txid |-> txid, outs |-> <<>>]

\* mapUtxos: each UTXO gets the transaction that contains it
RECURSIVE mapUtxos(_)
mapUtxos(utxosFromMempool) ==
    IF utxosFromMempool = <<>> THEN <<>>
    ELSE LET u == utxosFromMempool[1]
         IN <<[txid |-> u.txid, vout |-> u.vout, value |-> u.value, status |-> u.status,
               tx |-> getrawtransaction(u.txid)]>> \o mapUtxos(Tail(utxosFromMempool))

(***************************************************************************)
(* PSBTs                                                                   *)
(***************************************************************************)
\* new bitcoin.Psbt({network}): txInputs and txOutputs are the unsigned
\* transaction, inputs is the per-input PSBT metadata (psbt.data.inputs)
EmptyPsbt == [txInputs |-> <<>>, inputs |-> <<>>, txOutputs |-> <<>>]

\* the fields an input object may carry; an absent field is Absent
InputMeta(nonWitnessUtxo, witnessUtxo, sighashType, tapInternalKey, redeemScript) ==
    [nonWitnessUtxo |-> nonWitnessUtxo, witnessUtxo |-> witnessUtxo,
     sighashType |-> sighashType, tapInternalKey |-> tapInternalKey,
     redeemScript |-> redeemScript, finalScriptSig |-> Absent,
     finalScriptWitness |-> Absent]

\* what a wallet leaves in an input it signed and finalized: a witness stack
\* of one 64-byte Schnorr signature for a taproot input, a script otherwise
SchnorrWitness == <<1, 64, 7>>
SignatureScript == <<72, 48, 7>>
\* the witness a wallet leaves when it finalizes without signing: hex 0141
EmptySchnorrWitness == <<1, 65>>

\* the wallet's signing and finalizing of one input
Finalized(input) ==
    IF IsSome(input.tapInternalKey)
    THEN [input EXCEPT !.finalScriptWitness = Some(SchnorrWitness)]
    ELSE [input EXCEPT !.finalScriptSig = Some(SignatureScript)]

\* addInput that puts the new input first
addInputFront(psbt, txid, index, meta) ==
    [psbt EXCEPT !.txInputs = <<[hash |-> HashFromTxid(txid), index |-> index]>> \o @,
                 !.inputs = <<meta>> \o @]

\* psbt.addInput({hash: txid, index, ...}): the txid is stored as its hash
addInput(psbt, txid, index, meta) ==
    [psbt EXCEPT !.txInputs = Append(@, [hash |-> HashFromTxid(txid), index |-> index]),
                 !.inputs = Append(@, meta)]

\* psbt.addOutput({address, value}): the address is stored as its script
addOutput(psbt, address, value, network) ==
    [psbt EXCEPT !.txOutputs = Append(@, [script |-> toOutputScript(address, network),
                                          value |-> value])]

\* psbt.toBase64() and bitcoin.Psbt.fromBase64()
toBase64(psbt) == [magic |-> "cHNidP8", data |-> psbt]
fromBase64(b64) == b64.data

\* tx.outs[index] of a fetched transaction, undefined when out of range
OutAt(tx, index) ==
    IF index + 1 \in DOMAIN tx.outs THEN Some(tx.outs[index + 1]) ELSE Absent

(***************************************************************************)
(* SellerSigner.generateUnsignedListingPSBTBase64                          *)
(***************************************************************************)
ListingPsbt(l) ==
    LET f == split(l.seller.ordItem.output, Colon)
        ordinalUtxoTxId == f[1]
        ordinalUtxoVout == f[2]
        tx == getrawtransaction(ordinalUtxoTxId)
        input == InputMeta(Some(tx), OutAt(tx, parseInt(ordinalUtxoVout)),
                           Some(SIGHASH_SINGLE_ANYONECANPAY),
                           IF IsSome(l.seller.tapInternalKey)
                               THEN toXOnly(l.seller.tapInternalKey) ELSE Absent,
                           Absent)
        sellerOutput == getSellerOrdOutputValue(l.seller.price, l.seller.makerFeeBp,
                                                l.seller.ordItem.outputValue)
    IN addOutput(addInput(EmptyPsbt, ordinalUtxoTxId, parseInt(ordinalUtxoVout), input),
                 l.seller.sellerReceiveAddress, sellerOutput, l.network)

(***************************************************************************)
(* BuyerSigner.getSellerInputAndOutput                                     *)
(***************************************************************************)
getSellerInputAndOutput(l) ==
    LET f == split(l.seller.ordItem.output, Colon)
        tx == getrawtransaction(f[1])
    IN [txid |-> f[1], index |-> parseInt(f[2]),
        sellerInput |-> InputMeta(Some(tx), OutAt(tx, parseInt(f[2])), Absent,
                                  IF IsSome(l.seller.tapInternalKey)
                                      THEN toXOnly(l.seller.tapInternalKey) ELSE Absent,
                                  Absent),
        sellerOutput |-> [address |-> l.seller.sellerReceiveAddress,
                          value |-> getSellerOrdOutputValue(l.seller.price,
                                        l.seller.makerFeeBp, l.seller.ordItem.outputValue)]]

(***************************************************************************)
(* BuyerSigner.generateUnsignedBuyingPSBTBase64                            *)
(***************************************************************************)
\* PLATFORM_FEE_ADDRESS: the environment default is the empty string
PLATFORM_FEE_ADDRESS == NoAddress

\* the input object built for a dummy or payment UTXO of the buyer
BuyerInput(u, buyer, network) ==
    IF isP2SHAddress(buyer.buyerAddress, network)
    THEN LET redeemScript == p2wpkhOutput(buyer.buyerPublicKey)
         IN InputMeta(Some(u.tx), Some([script |-> p2shOutput(redeemScript), value |-> u.value]),
                      Absent, Absent, Some(redeemScript))
    ELSE InputMeta(Some(u.tx), Absent, Absent, Absent, Absent)

RECURSIVE addBuyerInputs(_, _, _, _)
addBuyerInputs(psbt, mapped, buyer, network) ==
    IF mapped = <<>> THEN psbt
    ELSE addBuyerInputs(addInput(psbt, mapped[1].txid, mapped[1].vout,
                                 BuyerInput(mapped[1], buyer, network)),
                        Tail(mapped), buyer, network)

\* the offset read from the vout field of the location
LocationVout(location) == parseInt(split(location, Colon)[2])

\* Number(location.split(':')[2]): the offset of the inscription in its output
LocationOffset(location) == parseInt(split(location, Colon)[3])

\* an output 0 that forgets the offset
DummyOutputValueNoOffset(dummies, location) == dummies[1].value + dummies[2].value

\* the value of output 0: both dummies and the offset
DummyOutputValue(dummies, location) ==
    dummies[1].value + dummies[2].value + LocationOffset(location)

\* a platform fee that is zeroed when not above the chain's dust limit
PlatformFeeValueAboveDust(price, takerFeeBp, makerFeeBp) ==
    LET v == FloorBp(price, takerFeeBp + makerFeeBp)
    IN IF v > dustLimit THEN v ELSE 0

\* Math.floor(price * (takerFeeBp + makerFeeBp) / 10000), zeroed when not
\* above DUMMY_UTXO_MIN_VALUE
PlatformFeeValue(price, takerFeeBp, makerFeeBp) ==
    LET v == FloorBp(price, takerFeeBp + makerFeeBp)
    IN IF v > DUMMY_UTXO_MIN_VALUE THEN v ELSE 0

\* a change output that is added for every positive remainder
AddsChangePositive(changeValue) == changeValue > 0

\* the change output is added when changeValue exceeds DUMMY_UTXO_MIN_VALUE
AddsChange(changeValue) == changeValue > DUMMY_UTXO_MIN_VALUE

\* totalInput of the builder: the values of the dummy and payment UTXOs
TotalInput(dummies, payments) == SumValues(dummies) + SumValues(payments)

NoLocals == [fee |-> 0, totalInput |-> 0, totalOutput |-> 0, changeValue |-> 0]

\* satToBtc: sat / 100_000_000, a number of whole coins and of hundred-millionths
satToBtc(sat) == [whole |-> sat \div 100000000, frac |-> sat % 100000000]

\* a build whose error message carries no figures
NoDiagnostic == [price |-> satToBtc(0), required |-> satToBtc(0), missing |-> satToBtc(0)]

\* figures that leave the fee out of what is missing
DiagnosticNoFee(price, totalOutput, fee, changeValue) ==
    [price |-> satToBtc(price), required |-> satToBtc(totalOutput + fee),
     missing |-> satToBtc(-changeValue - fee)]

\* the Price, Required and Missing figures of the insufficient-funds message
Diagnostic(price, totalOutput, fee, changeValue) ==
    [price |-> satToBtc(price), required |-> satToBtc(totalOutput + fee),
     missing |-> satToBtc(-changeValue)]

Failure(msg) ==
    [error |-> msg, psbt |-> EmptyPsbt, locals |-> NoLocals, diagnostic |-> NoDiagnostic]

\* the builder up to the payment inputs: the dummy inputs, the dummy output,
\* the ordinal output, the seller input and output, the payment inputs
WithPaymentInputs(l) ==
    LET b == l.buyer[1]
        so == getSellerInputAndOutput(l)
    IN addBuyerInputs(
           addOutput(
               addInput(
                   addOutput(
                       addOutput(addBuyerInputs(EmptyPsbt, b.buyerDummyUTXOs, b, l.network),
                                 b.buyerAddress,
                                 DummyOutputValue(b.buyerDummyUTXOs, l.seller.ordItem.location),
                                 l.network),
                       b.buyerTokenReceiveAddress, ORDINALS_POSTAGE_VALUE, l.network),
                   so.txid, so.index, so.sellerInput),
               so.sellerOutput.address, so.sellerOutput.value, l.network),
           mapUtxos(b.buyerPaymentUTXOs[1]), b, l.network)

\* the platform fee output, when its value is positive and an address is set
WithPlatformFee(psbt, l, feeAddressArg) ==
    LET feeAddress == IF feeAddressArg # NoAddress THEN feeAddressArg ELSE PLATFORM_FEE_ADDRESS
        platformFeeValue == PlatformFeeValue(l.seller.price, l.buyer[1].takerFeeBp,
                                             l.seller.makerFeeBp)
    IN IF platformFeeValue > 0 /\ feeAddress # NoAddress
       THEN addOutput(psbt, feeAddress, platformFeeValue, l.network)
       ELSE psbt

\* a builder that makes one new dummy output only
WithOneNewDummy(psbt, l) ==
    addOutput(psbt, l.buyer[1].buyerAddress, DUMMY_UTXO_VALUE, l.network)

\* the two new dummy outputs for the next purchase
WithNewDummies(psbt, l) ==
    addOutput(addOutput(psbt, l.buyer[1].buyerAddress, DUMMY_UTXO_VALUE, l.network),
              l.buyer[1].buyerAddress, DUMMY_UTXO_VALUE, l.network)

\* the fee, the change and the result, from the PSBT that has every output
\* but the change
WithChange(psbt, l) ==
    LET b == l.buyer[1]
        totalInput == TotalInput(b.buyerDummyUTXOs, mapUtxos(b.buyerPaymentUTXOs[1]))
        fee == calculateTxBytesFee(Len(psbt.txInputs), Len(psbt.txOutputs), b.feeRateTier)
        totalOutput == SumValues(psbt.txOutputs)
        changeValue == totalInput - totalOutput - fee
    IN IF \E i \in DOMAIN psbt.txOutputs : psbt.txOutputs[i].script = NoScript
       THEN Failure("AddressError")
       ELSE IF changeValue < 0
       THEN [Failure("Your wallet doesn't have enough funds to buy this inscription.")
                EXCEPT !.diagnostic = Diagnostic(l.seller.price, totalOutput, fee, changeValue)]
       ELSE [error |-> "", diagnostic |-> NoDiagnostic,
             psbt |-> IF AddsChange(changeValue)
                      THEN addOutput(psbt, b.buyerAddress, changeValue, l.network)
                      ELSE psbt,
             locals |-> [fee |-> fee, totalInput |-> totalInput,
                         totalOutput |-> totalOutput, changeValue |-> changeValue]]

\* the whole builder: the PSBT it returns with the values of its local
\* variables, or the error it throws
BuyingPsbt(l, feeAddressArg) ==
    IF \/ l.buyer = Absent
       \/ l.buyer[1].buyerAddress = NoAddress
       \/ l.buyer[1].buyerTokenReceiveAddress = NoAddress
    THEN Failure("Buyer address is not set")
    ELSE IF Len(l.buyer[1].buyerDummyUTXOs) # 2 \/ l.buyer[1].buyerPaymentUTXOs = Absent
    THEN Failure("Buyer address has not enough utxos")
    ELSE IF isP2SHAddress(l.buyer[1].buyerAddress, l.network)
            /\ l.buyer[1].buyerPublicKey = Absent
    THEN Failure("TypeError")
    ELSE WithChange(WithNewDummies(WithPlatformFee(WithPaymentInputs(l), l, feeAddressArg), l), l)

(***************************************************************************)
(* BuyerSigner.mergeSignedBuyingPSBTBase64                                 *)
(***************************************************************************)
\* the number of invocations of the merge so far
VARIABLE mergeCalls

\* a merge that remembers it has run and hands back the buyer PSBT as it is
\* the next time
mergeOnce(signedListingPSBTBase64, signedBuyingPSBTBase64) ==
    LET sellerSignedPsbt == fromBase64(signedListingPSBTBase64)
        buyerSignedPsbt == fromBase64(signedBuyingPSBTBase64)
        k == BUYING_PSBT_SELLER_SIGNATURE_INDEX + 1
    IN IF mergeCalls > 0 THEN signedBuyingPSBTBase64
       ELSE toBase64([buyerSignedPsbt EXCEPT !.txInputs[k] = sellerSignedPsbt.txInputs[1],
                                             !.inputs[k] = sellerSignedPsbt.inputs[1]])

\* a merge that splices the seller input at the buyer receive index
mergeAtReceiveIndex(signedListingPSBTBase64, signedBuyingPSBTBase64) ==
    LET sellerSignedPsbt == fromBase64(signedListingPSBTBase64)
        buyerSignedPsbt == fromBase64(signedBuyingPSBTBase64)
        k == BUYING_PSBT_BUYER_RECEIVE_INDEX + 1
    IN toBase64([buyerSignedPsbt EXCEPT !.txInputs[k] = sellerSignedPsbt.txInputs[1],
                                        !.inputs[k] = sellerSignedPsbt.inputs[1]])

\* a merge that replaces the transaction input and forgets its PSBT metadata
mergeInputOnly(signedListingPSBTBase64, signedBuyingPSBTBase64) ==
    LET sellerSignedPsbt == fromBase64(signedListingPSBTBase64)
        buyerSignedPsbt == fromBase64(signedBuyingPSBTBase64)
        k == BUYING_PSBT_SELLER_SIGNATURE_INDEX + 1
    IN toBase64([buyerSignedPsbt EXCEPT !.txInputs[k] = sellerSignedPsbt.txInputs[1]])

mergeSignedBuyingPSBTBase64(signedListingPSBTBase64, signedBuyingPSBTBase64) ==
    LET sellerSignedPsbt == fromBase64(signedListingPSBTBase64)
        buyerSignedPsbt == fromBase64(signedBuyingPSBTBase64)
        k == BUYING_PSBT_SELLER_SIGNATURE_INDEX + 1
    IN toBase64([buyerSignedPsbt EXCEPT !.txInputs[k] = sellerSignedPsbt.txInputs[1],
                                        !.inputs[k] = sellerSignedPsbt.inputs[1]])

(***************************************************************************)
(* The buyer's address UTXOs and what the indexer and the node say of them *)
(***************************************************************************)
\* `${txid}:${vout}`
Outpoint(txid, vout) == txid \o <<Colon>> \o ToDigits(vout)

U1 == Utxo(1, 0, 700, FALSE)      \* unconfirmed, its parent input is an inscription
U2 == Utxo(2, 0, 700, TRUE)       \* confirmed, no inscription
U3 == Utxo(3, 0, 50000, TRUE)     \* confirmed, no inscription
U4 == Utxo(4, 0, 700, TRUE)       \* confirmed, an inscription
U5 == Utxo(5, 1, 1000, TRUE)      \* confirmed, no inscription
U6 == Utxo(6, 0, 580, FALSE)      \* unconfirmed, clean confirmed ancestry
U7 == Utxo(7, 0, 200000, TRUE)    \* confirmed, the indexer fails
U8 == Utxo(8, 0, 150000, FALSE)   \* unconfirmed, its parent is unconfirmed
U9 == Utxo(9, 0, 1001, TRUE)      \* confirmed, no inscription
U10 == Utxo(10, 0, 600, TRUE)     \* confirmed, no inscription
U11 == Utxo(11, 0, 650, FALSE)    \* unconfirmed, the node fails on it
U12 == Utxo(12, 0, 30000, FALSE)  \* unconfirmed, two inputs, the indexer fails on the second

AddressUtxos == {U1, U2, U3, U4, U5, U6, U7, U8, U9, U10, U11, U12}

InscribedOutputs ==
    {ItemA.output, ItemB.output, ItemC.output, ItemD.output,
     Outpoint(TxidOf(4), 0), Outpoint(TxidOf(101), 0)}
FailingOutputs == {Outpoint(TxidOf(7), 0), Outpoint(TxidOf(104), 0)}

\* itemProvider.getTokenByOutput: an item, null, or a thrown error
getTokenByOutput(output) ==
    IF output \in InscribedOutputs THEN "item"
    ELSE IF output \in FailingOutputs THEN "error"
    ELSE "null"

VerboseTx(fails, confirmations, vin) ==
    [fails |-> fails, confirmations |-> confirmations, vin |-> vin]
Vin(n, vout) == [txid |-> TxidOf(n), vout |-> vout]

\* rpc.getrawtransactionVerbose: the inputs and confirmations of a transaction
getrawtransactionVerbose(txid) ==
    CASE txid = TxidOf(1) -> VerboseTx(FALSE, 0, <<Vin(101, 0)>>)
      [] txid = TxidOf(6) -> VerboseTx(FALSE, 0, <<Vin(102, 1)>>)
      [] txid = TxidOf(8) -> VerboseTx(FALSE, 0, <<Vin(103, 0)>>)
      [] txid = TxidOf(11) -> VerboseTx(TRUE, 0, <<>>)
      [] txid = TxidOf(12) -> VerboseTx(FALSE, 0, <<Vin(102, 1), Vin(104, 0)>>)
      [] txid = TxidOf(103) -> VerboseTx(FALSE, 0, <<Vin(105, 0)>>)
      [] OTHER -> VerboseTx(FALSE, 6, <<Vin(100, 0)>>)

(***************************************************************************)
(* BuyerSigner.doesUtxoContainInscription                                  *)
(***************************************************************************)
\* a scan that does not look at the confirmations of the parent
RECURSIVE ScanVinAnyParent(_, _)
ScanVinAnyParent(vin, i) ==
    IF i > Len(vin) THEN "no"
    ELSE LET prevTx == getrawtransactionVerbose(vin[i].txid)
         IN IF prevTx.fails THEN "throw"
            ELSE IF getTokenByOutput(Outpoint(vin[i].txid, vin[i].vout)) # "null" THEN "yes"
            ELSE ScanVinAnyParent(vin, i + 1)

\* the scan of tx.vin from input i: "yes", "no", or "throw" when the node fails
RECURSIVE ScanVin(_, _)
ScanVin(vin, i) ==
    IF i > Len(vin) THEN "no"
    ELSE LET prevTx == getrawtransactionVerbose(vin[i].txid)
         IN IF prevTx.fails THEN "throw"
            ELSE IF prevTx.confirmations = 0 THEN "yes"
            ELSE IF getTokenByOutput(Outpoint(vin[i].txid, vin[i].vout)) # "null" THEN "yes"
            ELSE ScanVin(vin, i + 1)

\* a check that takes an indexer error on a confirmed UTXO for "no inscription"
doesUtxoContainInscriptionFailOpen(utxo) ==
    IF utxo.status.confirmed
    THEN IF getTokenByOutput(Outpoint(utxo.txid, utxo.vout)) = "item" THEN "yes" ELSE "no"
    ELSE LET tx == getrawtransactionVerbose(utxo.txid)
         IN IF tx.fails THEN "throw" ELSE ScanVin(tx.vin, 1)

doesUtxoContainInscription(utxo) ==
    IF utxo.status.confirmed
    THEN IF getTokenByOutput(Outpoint(utxo.txid, utxo.vout)) # "null" THEN "yes" ELSE "no"
    ELSE LET tx == getrawtransactionVerbose(utxo.txid)
         IN IF tx.fails THEN "throw" ELSE ScanVin(tx.vin, 1)

(***************************************************************************)
(* BuyerSigner.selectDummyUTXOs                                            *)
(***************************************************************************)
\* a value test without the upper end of the range
InDummyRangeNoMax(value) == value >= DUMMY_UTXO_MIN_VALUE

\* the value test of a dummy UTXO
InDummyRange(value) == value >= DUMMY_UTXO_MIN_VALUE /\ value <= DUMMY_UTXO_MAX_VALUE

Returned(list) == [status |-> "returned", value |-> list]
ReturnedNull == [status |-> "null", value |-> <<>>]
Threw(msg) == [status |-> msg, value |-> <<>>]
NotCalled == [status |-> "idle", value |-> <<>>]

RECURSIVE DummyScan(_, _, _)
DummyScan(utxos, i, result) ==
    IF i > Len(utxos) THEN ReturnedNull
    ELSE LET c == doesUtxoContainInscription(utxos[i])
         IN IF c = "throw" THEN Threw("ProviderError")
            ELSE IF c = "yes" THEN DummyScan(utxos, i + 1, result)
            ELSE IF InDummyRange(utxos[i].value)
            THEN LET r == result \o mapUtxos(<<utxos[i]>>)
                 IN IF Len(r) = 2 THEN Returned(r) ELSE DummyScan(utxos, i + 1, r)
            ELSE DummyScan(utxos, i + 1, result)

selectDummyUTXOs(utxos) == DummyScan(utxos, 1, <<>>)

(***************************************************************************)
(* BuyerSigner.selectPaymentUTXOs                                          *)
(***************************************************************************)
\* a filter that lets a UTXO of exactly DUMMY_UTXO_VALUE through
RECURSIVE FilterPaymentFromDummy(_)
FilterPaymentFromDummy(utxos) ==
    IF utxos = <<>> THEN <<>>
    ELSE IF utxos[1].value >= DUMMY_UTXO_VALUE
         THEN <<utxos[1]>> \o FilterPaymentFromDummy(Tail(utxos))
         ELSE FilterPaymentFromDummy(Tail(utxos))

\* utxos.filter((x) => x.value > DUMMY_UTXO_VALUE)
RECURSIVE FilterPayment(_)
FilterPayment(utxos) ==
    IF utxos = <<>> THEN <<>>
    ELSE IF utxos[1].value > DUMMY_UTXO_VALUE
         THEN <<utxos[1]>> \o FilterPayment(Tail(utxos))
         ELSE FilterPayment(Tail(utxos))

\* .sort((a, b) => b.value - a.value): descending and stable
RECURSIVE InsertDesc(_, _)
InsertDesc(sorted, u) ==
    IF sorted = <<>> THEN <<u>>
    ELSE IF sorted[1].value >= u.value THEN <<sorted[1]>> \o InsertDesc(Tail(sorted), u)
    ELSE <<u>> \o sorted

RECURSIVE SortDesc(_, _)
SortDesc(utxos, acc) ==
    IF utxos = <<>> THEN acc ELSE SortDesc(Tail(utxos), InsertDesc(acc, utxos[1]))

RECURSIVE PaymentScan(_, _, _, _, _, _, _)
PaymentScan(filteredUtxos, i, selectedUtxos, amount, vinsLength, voutsLength, feeRateTier) ==
    IF i > Len(filteredUtxos)
    THEN IF SumValues(selectedUtxos) < amount
         THEN Threw("Not enough cardinal spendable funds.")
         ELSE Returned(selectedUtxos)
    ELSE LET c == doesUtxoContainInscription(filteredUtxos[i])
         IN IF c = "throw" THEN Threw("ProviderError")
            ELSE IF c = "yes"
            THEN PaymentScan(filteredUtxos, i + 1, selectedUtxos, amount,
                             vinsLength, voutsLength, feeRateTier)
            ELSE LET sel == Append(selectedUtxos, filteredUtxos[i])
                     fee == calculateTxBytesFee(vinsLength + Len(sel), voutsLength, feeRateTier)
                 IN IF SumValues(sel) >= amount + fee
                    THEN PaymentScan(filteredUtxos, Len(filteredUtxos) + 1, sel, amount,
                                     vinsLength, voutsLength, feeRateTier)
                    ELSE PaymentScan(filteredUtxos, i + 1, sel, amount,
                                     vinsLength, voutsLength, feeRateTier)

selectPaymentUTXOs(utxos, amount, vinsLength, voutsLength, feeRateTier) ==
    PaymentScan(SortDesc(FilterPayment(utxos), <<>>), 1, <<>>, amount,
                vinsLength, voutsLength, feeRateTier)

(***************************************************************************)
(* BuyerSigner.generateUnsignedCreateDummyUtxoPSBTBase64                   *)
(***************************************************************************)
\* the input object built for a UTXO that funds the new dummies
CreateDummyInput(utxo, address, buyerPublicKey, network) ==
    IF isP2SHAddress(address, network)
    THEN InputMeta(Some(utxo.tx), OutAt(utxo.tx, utxo.vout), Absent, Absent,
                   Some(p2wpkhOutput(buyerPublicKey)))
    ELSE InputMeta(Some(utxo.tx), Absent, Absent, Absent, Absent)

CreateDummyState(msg, psbt, totalValue, paymentUtxoCount) ==
    [error |-> msg, psbt |-> psbt, totalValue |-> totalValue,
     paymentUtxoCount |-> paymentUtxoCount]

\* a threshold that counts the fee of the inputs alone, the outputs left out
EnoughForDummiesInputsOnly(totalValue, paymentUtxoCount, recommendedFee) ==
    totalValue >= DUMMY_UTXO_VALUE * 2
                      + calculateTxBytesFeeWithRate(paymentUtxoCount, 0, recommendedFee, 0)

\* totalValue >= DUMMY_UTXO_VALUE * 2 + fees
EnoughForDummies(totalValue, paymentUtxoCount, recommendedFee) ==
    totalValue >= DUMMY_UTXO_VALUE * 2
                      + calculateTxBytesFeeWithRate(paymentUtxoCount, 2, recommendedFee, 1)

\* the loop over the mapped UTXOs from position i: the inputs added so far,
\* their total value and their number, or the error that ends the call
RECURSIVE CreateDummyScan(_, _, _, _, _, _, _, _)
CreateDummyScan(mappedUtxos, i, psbt, totalValue, address, buyerPublicKey, recommendedFee, network) ==
    IF i > Len(mappedUtxos) THEN CreateDummyState("", psbt, totalValue, Len(psbt.txInputs))
    ELSE LET utxo == mappedUtxos[i]
             c == doesUtxoContainInscription(utxo)
             total == totalValue + utxo.value
             count == Len(psbt.txInputs) + 1
         IN IF c = "throw" THEN CreateDummyState("ProviderError", psbt, totalValue, count - 1)
            ELSE IF c = "yes"
            THEN CreateDummyScan(mappedUtxos, i + 1, psbt, totalValue, address,
                                 buyerPublicKey, recommendedFee, network)
            ELSE IF isP2SHAddress(address, network) /\ buyerPublicKey = Absent
            THEN CreateDummyState("TypeError", psbt, totalValue, count - 1)
            ELSE LET next == addInput(psbt, utxo.txid, utxo.vout,
                                      CreateDummyInput(utxo, address, buyerPublicKey, network))
                 IN IF EnoughForDummies(total, count, recommendedFee)
                    THEN CreateDummyState("", next, total, count)
                    ELSE CreateDummyScan(mappedUtxos, i + 1, next, total, address,
                                         buyerPublicKey, recommendedFee, network)

\* the statements after the loop: the final fee, the change, the outputs
CreateDummyOutputs(scan, address, recommendedFee, network) ==
    LET finalFees == calculateTxBytesFeeWithRate(scan.paymentUtxoCount, 2, recommendedFee, 1)
        changeValue == scan.totalValue - DUMMY_UTXO_VALUE * 2 - finalFees
        dummies == addOutput(addOutput(scan.psbt, address, DUMMY_UTXO_VALUE, network),
                             address, DUMMY_UTXO_VALUE, network)
    IN IF scan.error # "" THEN [error |-> scan.error, psbt |-> EmptyPsbt]
       ELSE IF changeValue < 0
       THEN [error |-> "You might have pending transactions or not enough funds",
             psbt |-> EmptyPsbt]
       ELSE [error |-> "",
             psbt |-> IF changeValue > DUMMY_UTXO_MIN_VALUE
                      THEN addOutput(dummies, address, changeValue, network)
                      ELSE dummies]

\* the error the call throws or the PSBT it returns
generateUnsignedCreateDummyUtxoPSBTBase64(address, buyerPublicKey, unqualifiedUtxos, feeRateTier, network) ==
    CreateDummyOutputs(CreateDummyScan(mapUtxos(unqualifiedUtxos), 1, EmptyPsbt, 0, address,
                                       buyerPublicKey, getFees(feeRateTier), network),
                       address, getFees(feeRateTier), network)

(***************************************************************************)
(* SellerSigner.verifySignedListingPSBTBase64                              *)
(***************************************************************************)
\* the item the indexer holds for an output, if it holds one
ItemAt(output) ==
    IF \E it \in Items : it.output = output
    THEN Some(CHOOSE it \in Items : it.output = output)
    ELSE Absent

\* psbt.data.inputs.forEach: the first input with a tapInternalKey whose
\* finalScriptWitness is missing, empty or the hex string 0141 throws
RECURSIVE TaprootSignatureError(_, _)
TaprootSignatureError(inputs, i) ==
    IF i > Len(inputs) THEN ""
    ELSE IF IsSome(inputs[i].tapInternalKey)
    THEN LET finalScriptWitness == inputs[i].finalScriptWitness
         IN IF IsSome(finalScriptWitness) /\ Len(finalScriptWitness[1]) > 0
            THEN IF BytesToHex(finalScriptWitness[1]) = <<48, 49, 52, 49>>
                 THEN "Invalid signature - no taproot signature present"
                 ELSE TaprootSignatureError(inputs, i + 1)
            ELSE "Invalid signature - no finalScriptWitness"
    ELSE TaprootSignatureError(inputs, i + 1)

\* analyzeResult?.inputs[0]?.is_final !== true
NotFinal(analyzeResult) ==
    \/ analyzeResult = Absent
    \/ analyzeResult[1].inputs = <<>>
    \/ analyzeResult[1].inputs[1].is_final # TRUE

\* a verifier that never asks the marketplace fee provider
MakerFeeBpOfNone(marketplaceFeeProvider, owner) == 0

\* marketplaceFeeProvider ? await marketplaceFeeProvider.getMakerFeeBp(owner) : 0
MakerFeeBpOf(marketplaceFeeProvider, owner) ==
    IF IsSome(marketplaceFeeProvider) THEN marketplaceFeeProvider[1].makerFeeBp ELSE 0

\* a price check that refuses only an output below the expected one
PriceMismatchBelow(value, price, makerFeeBp, outputValue) ==
    value < getSellerOrdOutputValue(price, makerFeeBp, outputValue)

\* output.value !== expectedOutput
PriceMismatch(value, price, makerFeeBp, outputValue) ==
    value # getSellerOrdOutputValue(price, makerFeeBp, outputValue)

\* the checks of the price, of the receive address and of the seller address;
\* reading the value of an output that is not there is a TypeError
VerifyOutput(r, config, psbt, ordItem) ==
    LET makerFeeBp == MakerFeeBpOf(config.marketplaceFeeProvider, ordItem.owner)
        txid == generateTxidFromHash(psbt.txInputs[1].hash)
        out == OutAt(getrawtransaction(txid), psbt.txInputs[1].index)
    IN IF psbt.txOutputs = <<>> THEN "TypeError"
       ELSE IF PriceMismatch(psbt.txOutputs[1].value, r.price, makerFeeBp, ordItem.outputValue)
       THEN "Invalid price"
       ELSE IF fromOutputScript(psbt.txOutputs[1].script, config.network)
                   # r.sellerReceiveAddress
       THEN "Invalid sellerReceiveAddress"
       ELSE IF out = Absent THEN "TypeError"
       ELSE IF ordItem.owner # fromOutputScript(out[1].script, config.network)
       THEN "Invalid seller address"
       ELSE ""

\* the checks of the inscription: the outpoint of input 0 is looked up
VerifyItem(r, config, psbt) ==
    LET utxoOutput == generateTxidFromHash(psbt.txInputs[1].hash) \o <<Colon>>
                          \o ToDigits(psbt.txInputs[1].index)
        ordItem == ItemAt(utxoOutput)
    IN IF getTokenByOutput(utxoOutput) = "error" THEN "ProviderError"
       ELSE IF ordItem = Absent \/ ordItem[1].id # r.tokenId THEN "Invalid tokenId"
       ELSE VerifyOutput(r, config, psbt, ordItem[1])

\* the number of invocations of the verification on the request so far
VARIABLE verifyCalls

\* a verification that remembers the request and refuses it the second time
verifyOnce(r, config) ==
    LET psbt == fromBase64(r.signedListingPSBTBase64)
        signatureError == TaprootSignatureError(psbt.inputs, 1)
    IN IF verifyCalls > 0 THEN "Invalid signature"
       ELSE IF signatureError # "" THEN signatureError
       ELSE IF NotFinal(config.rpcProvider.analyzepsbt) THEN "Invalid signature"
       ELSE IF Len(psbt.inputs) # 1 THEN "Invalid number of inputs"
       ELSE VerifyItem(r, config, psbt)

\* the message of the error the verification throws, "" when it returns
verifySignedListingPSBTBase64(r, config) ==
    LET psbt == fromBase64(r.signedListingPSBTBase64)
        signatureError == TaprootSignatureError(psbt.inputs, 1)
    IN IF signatureError # "" THEN signatureError
       ELSE IF NotFinal(config.rpcProvider.analyzepsbt) THEN "Invalid signature"
       ELSE IF Len(psbt.inputs) # 1 THEN "Invalid number of inputs"
       ELSE VerifyItem(r, config, psbt)

(***************************************************************************)
(* State                                                                   *)
(***************************************************************************)
VARIABLES
    listing,             \* the IListingState document of the session
    platformFeeAddress,  \* the platformFeeAddress argument of the last purchase build
    locals,              \* fee, totalInput, totalOutput, changeValue of that build
    error,               \* the error the last failed call threw, "" when none
    utxos,               \* the address UTXO list handed to the selection routines
    args,                \* amount, vinsLength, voutsLength, feeRateTier of selectPaymentUTXOs
    dummyResult,         \* what selectDummyUTXOs returned
    paymentResult,       \* what selectPaymentUTXOs returned
    req,                 \* the IOrdAPIPostPSBTListing request a seller posted, if any
    config,              \* the SignerConfig: network, node analysis, marketplace fees
    verifyResult,        \* what verifySignedListingPSBTBase64 did with the request
    diagnostic,          \* the figures in the message of the last insufficient-funds error
    checkedAddress,      \* the address argument of getAddressType and isValidAddress
    checkedNetwork,      \* their network argument
    addressType,         \* what getAddressType returned, "" before the call
    validAddress,        \* what isValidAddress returned, if it was called
    checkedUtxo,         \* the utxo argument of doesUtxoContainInscription, if it was called
    containsResult,      \* what that call did: "yes", "no", "throw", "" before the call
    defaultInstance,     \* the module variable defaultInstance of fullnoderpc.ts
    built,               \* the number of FullnodeRPC instances fromEnv has constructed
    rpcCalls,            \* the number of calls each session has made to the two functions
    returned,            \* the instances getDefaultRPC returned to each session, in order
    firstCall,           \* the first call of the process: "get", "set", "" before it
    createArgs,          \* address, buyerPublicKey, feeRateTier of the dummy-creating build
    createResult         \* the error that build threw or the PSBT it returned, if it ran

vars == <<listing, platformFeeAddress, locals, error, utxos, args, dummyResult, paymentResult,
          req, config, verifyResult, verifyCalls, mergeCalls, diagnostic,
          checkedAddress, checkedNetwork, addressType, validAddress,
          checkedUtxo, containsResult,
          defaultInstance, built, rpcCalls, returned, firstCall,
          createArgs, createResult>>

selectVars == <<utxos, args, dummyResult, paymentResult>>
purchaseVars == <<listing, platformFeeAddress, locals, error, mergeCalls, diagnostic>>
verifyVars == <<req, config, verifyResult, verifyCalls>>
addressVars == <<checkedAddress, checkedNetwork, addressType, validAddress>>
containsVars == <<checkedUtxo, containsResult>>
rpcVars == <<defaultInstance, built, rpcCalls, returned, firstCall>>
createVars == <<createArgs, createResult>>
otherVars == <<containsVars, rpcVars, createVars>>

(***************************************************************************)
(* Inputs of the model                                                     *)
(***************************************************************************)
\* the sessions of the process that fall back on the default RPC handle
Sessions == {"s1", "s2"}

\* the instances a caller may hand to setDefaultRPC
SuppliedInstances == {[origin |-> "caller", id |-> 1], [origin |-> "caller", id |-> 2]}

Prices == {56000, 100000, 100000000}
MakerFees == {0, 100}
TakerFees == {0, 200}
FeeRateTiers == {"minimumFee", "economy"}

PlatformAddress(network) == Base58(network.pubKeyHash, 9001)
BuyerP2PKH(network) == Base58(network.pubKeyHash, 8001)
BuyerP2SH(network) == Base58(network.scriptHash, 8002)
BuyerTokenReceive(network) == Base58(network.pubKeyHash, 8003)

\* the payment address of the buyer with the public key the caller supplies
BuyerWallets(network) ==
    { [buyerAddress |-> BuyerP2PKH(network), buyerPublicKey |-> Absent],
      [buyerAddress |-> BuyerP2SH(network), buyerPublicKey |-> BuyerKey],
      [buyerAddress |-> BuyerP2SH(network), buyerPublicKey |-> Absent] }

D1 == Utxo(33, 0, 600, TRUE)
D2 == Utxo(34, 1, 600, TRUE)
D3 == Utxo(35, 0, 580, TRUE)
D4 == Utxo(36, 0, 1000, TRUE)
DummyPairs == {mapUtxos(<<D1, D2>>), mapUtxos(<<D3, D4>>)}

P1 == Utxo(49, 0, 50000, TRUE)
P2 == Utxo(50, 0, 124500, TRUE)
P3 == Utxo(51, 2, 200000, TRUE)
P4 == Utxo(52, 0, 102000000, TRUE)
PaymentUtxos == {P1, P2, P3, P4}

\* the lists without repetition of at most n elements of S
ListsOf(S, n) ==
    {s \in UNION {[1..k -> S] : k \in 0..n} : \A i, j \in DOMAIN s : i # j => s[i] # s[j]}

NewListing(sc, price, makerFeeBp) ==
    [network |-> sc.network,
     seller |-> [makerFeeBp |-> makerFeeBp, sellerOrdAddress |-> sc.sellerOrdAddress,
                 price |-> price, ordItem |-> sc.ordItem,
                 sellerReceiveAddress |-> sc.sellerReceiveAddress,
                 tapInternalKey |-> sc.tapInternalKey,
                 unsignedListingPSBTBase64 |-> Absent,
                 signedListingPSBTBase64 |-> Absent],
     buyer |-> Absent]

\* a SignerConfig: the chain, what the node answers to analyzepsbt and the
\* marketplace fee provider, if there is one
NewConfig(network, analyzeResult, marketplaceFeeProvider) ==
    [network |-> network, rpcProvider |-> [analyzepsbt |-> analyzeResult],
     marketplaceFeeProvider |-> marketplaceFeeProvider]

NewBuyer(w, network, takerFeeBp, feeRateTier, dummies, payments) ==
    [takerFeeBp |-> takerFeeBp, buyerAddress |-> w.buyerAddress,
     buyerTokenReceiveAddress |-> BuyerTokenReceive(network),
     feeRateTier |-> feeRateTier, buyerPublicKey |-> w.buyerPublicKey,
     unsignedBuyingPSBTBase64 |-> Absent, unsignedBuyingPSBTInputSize |-> Absent,
     signedBuyingPSBTBase64 |-> Absent,
     buyerDummyUTXOs |-> dummies, buyerPaymentUTXOs |-> Some(payments),
     mergedSignedBuyingPSBTBase64 |-> Absent]

(***************************************************************************)
(* The purchase session                                                    *)
(***************************************************************************)
Init ==
    /\ \E sc \in Scenarios, price \in Prices, makerFeeBp \in MakerFees :
           listing = NewListing(sc, price, makerFeeBp)
    /\ platformFeeAddress = NoAddress
    /\ locals = NoLocals
    /\ error = ""
    /\ utxos = <<>>
    /\ args = [amount |-> 0, vinsLength |-> 0, voutsLength |-> 0, feeRateTier |-> ""]
    /\ dummyResult = NotCalled
    /\ paymentResult = NotCalled
    /\ req = Absent
    /\ config = NewConfig(listing.network, Absent, Absent)
    /\ verifyResult = NotCalled
    /\ verifyCalls = 0
    /\ mergeCalls = 0
    /\ diagnostic = NoDiagnostic
    /\ checkedAddress = NoAddress
    /\ checkedNetwork = bitcoin
    /\ addressType = ""
    /\ validAddress = Absent
    /\ checkedUtxo = Absent
    /\ containsResult = ""
    /\ defaultInstance = Absent
    /\ built = 0
    /\ rpcCalls = [s \in Sessions |-> 0]
    /\ returned = [s \in Sessions |-> <<>>]
    /\ firstCall = ""
    /\ createArgs = Absent
    /\ createResult = Absent

\* listing.seller.unsignedListingPSBTBase64 = psbt.toBase64(), the last
\* statement of the listing builder
StoreListing(l, psbt) == [l EXCEPT !.seller.unsignedListingPSBTBase64 = Some(toBase64(psbt))]

\* a purchase builder that records the input size before it checks the funds
StoreBuyingSizeFirst(l, r) ==
    IF r.error = ""
    THEN [l EXCEPT !.buyer[1].unsignedBuyingPSBTBase64 = Some(toBase64(r.psbt)),
                   !.buyer[1].unsignedBuyingPSBTInputSize = Some(Len(r.psbt.inputs))]
    ELSE IF l.buyer # Absent
    THEN [l EXCEPT !.buyer[1].unsignedBuyingPSBTInputSize = Some(Len(r.psbt.inputs))]
    ELSE l

\* the last statements of the purchase builder, which a build that threw
\* never reaches
StoreBuying(l, r) ==
    IF r.error # "" THEN l
    ELSE [l EXCEPT !.buyer[1].unsignedBuyingPSBTBase64 = Some(toBase64(r.psbt)),
                   !.buyer[1].unsignedBuyingPSBTInputSize = Some(Len(r.psbt.inputs))]

\* the errors the purchase builder throws before its first call to a provider
BeforeProviders == {"Buyer address is not set", "Buyer address has not enough utxos",
                    "TypeError", "AddressError"}

\* a build that asks the node and the fee provider before it validates the
\* listing
BuyingPsbtProvidersFirst(l, feeAddressArg, providersUp) ==
    IF ~providersUp THEN Failure("ProviderError") ELSE BuyingPsbt(l, feeAddressArg)

\* the build when the node or the fee provider may be down: the errors
\* thrown before the first call to a provider come first
BuyingPsbtWith(l, feeAddressArg, providersUp) ==
    LET r == BuyingPsbt(l, feeAddressArg)
    IN IF ~providersUp /\ r.error \notin BeforeProviders THEN Failure("ProviderError") ELSE r

\* SellerSigner.generateUnsignedListingPSBTBase64(listing); the call fails
\* when rpc.getrawtransaction does
GenerateUnsignedListingPSBTBase64 ==
    /\ listing.seller.unsignedListingPSBTBase64 = Absent
    /\ error = ""
    /\ \E providersUp \in BOOLEAN :
         /\ error' = IF providersUp THEN "" ELSE "ProviderError"
         /\ listing' = IF providersUp THEN StoreListing(listing, ListingPsbt(listing))
                       ELSE listing
    /\ UNCHANGED <<platformFeeAddress, locals, mergeCalls, diagnostic>>
    /\ UNCHANGED selectVars
    /\ UNCHANGED verifyVars
    /\ UNCHANGED addressVars
    /\ UNCHANGED otherVars

\* the seller's wallet signs and finalizes input 0 of the listing PSBT
SignListing ==
    /\ listing.seller.unsignedListingPSBTBase64 # Absent
    /\ listing.seller.signedListingPSBTBase64 = Absent
    /\ LET psbt == fromBase64(listing.seller.unsignedListingPSBTBase64[1])
           signed == [psbt EXCEPT !.inputs[1] = Finalized(@)]
       IN listing' = [listing EXCEPT !.seller.signedListingPSBTBase64 = Some(toBase64(signed))]
    /\ UNCHANGED <<platformFeeAddress, locals, error, mergeCalls, diagnostic>>
    /\ UNCHANGED selectVars
    /\ UNCHANGED verifyVars
    /\ UNCHANGED addressVars
    /\ UNCHANGED otherVars

\* buyers a caller may hand over that the builder must refuse: one without a
\* payment address, one without a token receive address, one with no dummy
\* UTXO list (an absent list and an empty one both fail length !== 2), with
\* one dummy UTXO, with three, and one without a payment UTXO list
MalformedBuyers(network) ==
    LET b == NewBuyer(CHOOSE w \in BuyerWallets(network) : w.buyerPublicKey # Absent,
                      network, 200, "economy", mapUtxos(<<D1, D2>>), <<P3>>)
    IN { [b EXCEPT !.buyerAddress = NoAddress],
         [b EXCEPT !.buyerTokenReceiveAddress = NoAddress],
         [b EXCEPT !.buyerDummyUTXOs = <<>>],
         [b EXCEPT !.buyerDummyUTXOs = mapUtxos(<<D1>>)],
         [b EXCEPT !.buyerDummyUTXOs = mapUtxos(<<D1, D2, D3>>)],
         [b EXCEPT !.buyerPaymentUTXOs = Absent] }

\* the caller adds the buyer to the published listing, with the dummy and
\* payment UTXOs it selected
AttachBuyer ==
    /\ listing.seller.signedListingPSBTBase64 # Absent
    /\ listing.buyer = Absent
    /\ error = ""
    /\ \/ \E w \in BuyerWallets(listing.network), takerFeeBp \in TakerFees,
             feeRateTier \in FeeRateTiers, dummies \in DummyPairs,
             payments \in ListsOf(PaymentUtxos, MaxPayments) :
              listing' = [listing EXCEPT !.buyer =
                  Some(NewBuyer(w, listing.network, takerFeeBp, feeRateTier, dummies, payments))]
       \/ \E b \in MalformedBuyers(listing.network) :
              listing' = [listing EXCEPT !.buyer = Some(b)]
    /\ UNCHANGED <<platformFeeAddress, locals, error, mergeCalls, diagnostic>>
    /\ UNCHANGED selectVars
    /\ UNCHANGED verifyVars
    /\ UNCHANGED addressVars
    /\ UNCHANGED otherVars

\* BuyerSigner.generateUnsignedBuyingPSBTBase64(listing, feeProvider, rpc, platformFeeAddress)
GenerateUnsignedBuyingPSBTBase64 ==
    /\ listing.seller.signedListingPSBTBase64 # Absent
    /\ listing.buyer # Absent => listing.buyer[1].unsignedBuyingPSBTBase64 = Absent
    /\ error = ""
    /\ \E feeAddressArg \in {NoAddress, PlatformAddress(listing.network)},
          providersUp \in BOOLEAN :
         LET r == BuyingPsbtWith(listing, feeAddressArg, providersUp)
         IN /\ platformFeeAddress' = feeAddressArg
            /\ error' = r.error
            /\ locals' = r.locals
            /\ diagnostic' = r.diagnostic
            /\ listing' = StoreBuying(listing, r)
    /\ UNCHANGED mergeCalls
    /\ UNCHANGED selectVars
    /\ UNCHANGED verifyVars
    /\ UNCHANGED addressVars
    /\ UNCHANGED otherVars

\* the buyer's wallet signs every input but the seller's
SignBuying ==
    /\ listing.buyer # Absent
    /\ listing.buyer[1].unsignedBuyingPSBTBase64 # Absent
    /\ listing.buyer[1].signedBuyingPSBTBase64 = Absent
    /\ LET psbt == fromBase64(listing.buyer[1].unsignedBuyingPSBTBase64[1])
           signed == [psbt EXCEPT !.inputs =
                        [i \in DOMAIN @ |->
                            IF i = BUYING_PSBT_SELLER_SIGNATURE_INDEX + 1 THEN @[i]
                            ELSE Finalized(@[i])]]
       IN listing' = [listing EXCEPT !.buyer[1].signedBuyingPSBTBase64 = Some(toBase64(signed))]
    /\ UNCHANGED <<platformFeeAddress, locals, error, mergeCalls, diagnostic>>
    /\ UNCHANGED selectVars
    /\ UNCHANGED verifyVars
    /\ UNCHANGED addressVars
    /\ UNCHANGED otherVars

\* BuyerSigner.mergeSignedBuyingPSBTBase64(signedListing, signedBuying), stored by the caller
MergeSignedBuyingPSBTBase64 ==
    /\ listing.buyer # Absent
    /\ listing.buyer[1].signedBuyingPSBTBase64 # Absent
    /\ mergeCalls < MaxMergeCalls
    /\ listing' = [listing EXCEPT !.buyer[1].mergedSignedBuyingPSBTBase64 =
           Some(mergeSignedBuyingPSBTBase64(listing.seller.signedListingPSBTBase64[1],
                                            listing.buyer[1].signedBuyingPSBTBase64[1]))]
    /\ mergeCalls' = mergeCalls + 1
    /\ UNCHANGED <<platformFeeAddress, locals, error, diagnostic>>
    /\ UNCHANGED selectVars
    /\ UNCHANGED verifyVars
    /\ UNCHANGED addressVars
    /\ UNCHANGED otherVars

Next ==
    \/ GenerateUnsignedListingPSBTBase64
    \/ SignListing
    \/ AttachBuyer
    \/ GenerateUnsignedBuyingPSBTBase64
    \/ SignBuying
    \/ MergeSignedBuyingPSBTBase64

Spec == Init /\ [][Next]_vars

(***************************************************************************)
(* The UTXO selection of a buyer                                           *)
(***************************************************************************)
Amounts == {1500, 49500}

InitSelect ==
    /\ listing = NewListing(CHOOSE sc \in Scenarios : sc.ordItem = ItemA, 100000, 100)
    /\ platformFeeAddress = NoAddress
    /\ locals = NoLocals
    /\ error = ""
    /\ utxos \in ListsOf(AddressUtxos, MaxUtxos)
    /\ args = [amount |-> 0, vinsLength |-> 0, voutsLength |-> 0, feeRateTier |-> ""]
    /\ dummyResult = NotCalled
    /\ paymentResult = NotCalled
    /\ req = Absent
    /\ config = NewConfig(listing.network, Absent, Absent)
    /\ verifyResult = NotCalled
    /\ verifyCalls = 0
    /\ mergeCalls = 0
    /\ diagnostic = NoDiagnostic
    /\ checkedAddress = NoAddress
    /\ checkedNetwork = bitcoin
    /\ addressType = ""
    /\ validAddress = Absent
    /\ checkedUtxo = Absent
    /\ containsResult = ""
    /\ defaultInstance = Absent
    /\ built = 0
    /\ rpcCalls = [s \in Sessions |-> 0]
    /\ returned = [s \in Sessions |-> <<>>]
    /\ firstCall = ""
    /\ createArgs = Absent
    /\ createResult = Absent

\* BuyerSigner.selectDummyUTXOs(utxos, itemProvider, rpcProvider)
SelectDummyUTXOs ==
    /\ dummyResult = NotCalled
    /\ dummyResult' = selectDummyUTXOs(utxos)
    /\ UNCHANGED <<utxos, args, paymentResult>>
    /\ UNCHANGED purchaseVars
    /\ UNCHANGED verifyVars
    /\ UNCHANGED addressVars
    /\ UNCHANGED otherVars

\* BuyerSigner.selectPaymentUTXOs(utxos, amount, vinsLength, voutsLength, feeRateTier, ...)
SelectPaymentUTXOs ==
    /\ paymentResult = NotCalled
    /\ \E amount \in Amounts, feeRateTier \in {"minimumFee", "fastestFee"} :
         /\ args' = [amount |-> amount, vinsLength |-> 3, voutsLength |-> 6,
                     feeRateTier |-> feeRateTier]
         /\ paymentResult' = selectPaymentUTXOs(utxos, amount, 3, 6, feeRateTier)
    /\ UNCHANGED <<utxos, dummyResult>>
    /\ UNCHANGED purchaseVars
    /\ UNCHANGED verifyVars
    /\ UNCHANGED addressVars
    /\ UNCHANGED otherVars

\* doesUtxoContainInscription(utxo, itemProvider, rpcProvider) on one UTXO of the list
DoesUtxoContainInscription ==
    /\ checkedUtxo = Absent
    /\ \E i \in DOMAIN utxos :
         /\ checkedUtxo' = Some(utxos[i])
         /\ containsResult' = doesUtxoContainInscription(utxos[i])
    /\ UNCHANGED selectVars
    /\ UNCHANGED purchaseVars
    /\ UNCHANGED verifyVars
    /\ UNCHANGED addressVars
    /\ UNCHANGED rpcVars
    /\ UNCHANGED createVars

NextSelect == SelectDummyUTXOs \/ SelectPaymentUTXOs \/ DoesUtxoContainInscription

SpecSelect == InitSelect /\ [][NextSelect]_vars

(***************************************************************************)
(* The verification of a posted listing                                    *)
(***************************************************************************)
\* how the poster left input 0: signed and finalized, untouched, finalized
\* with the empty Schnorr witness, with an empty witness, or with a script only
Signings == {"signed", "unsigned", "sentinel", "emptyWitness", "scriptOnly"}

SignedAs(input, how) ==
    CASE how = "signed" -> Finalized(input)
      [] how = "sentinel" -> [input EXCEPT !.finalScriptWitness = Some(EmptySchnorrWitness)]
      [] how = "emptyWitness" -> [input EXCEPT !.finalScriptWitness = Some(<<>>)]
      [] how = "scriptOnly" -> [input EXCEPT !.finalScriptSig = Some(SignatureScript)]
      [] OTHER -> input

\* what the poster changed in the listing PSBT before posting it
Tamperings == {"none", "underpay", "redirect", "extraInput", "noOutput", "otherOutpoint"}

Tampered(psbt, how, network) ==
    CASE how = "underpay" -> [psbt EXCEPT !.txOutputs[1].value = @ - 1]
      [] how = "redirect" ->
             [psbt EXCEPT !.txOutputs[1].script = toOutputScript(BuyerP2PKH(network), network)]
      [] how = "extraInput" ->
             addInput(psbt, D1.txid, D1.vout,
                      Finalized(InputMeta(Some(getrawtransaction(D1.txid)), Absent, Absent,
                                          Absent, Absent)))
      [] how = "noOutput" -> [psbt EXCEPT !.txOutputs = <<>>]
      [] how = "otherOutpoint" ->
             [psbt EXCEPT !.txInputs[1] = [hash |-> HashFromTxid(U2.txid), index |-> U2.vout]]
      [] OTHER -> psbt

\* what the node may answer to analyzepsbt: input 0 final, not final, no
\* input at all, or no result
AnalyzeResults ==
    { Some([inputs |-> <<[is_final |-> TRUE]>>]), Some([inputs |-> <<[is_final |-> FALSE]>>]),
      Some([inputs |-> <<>>]), Absent }

\* the marketplace fee provider, when there is one, charges every maker 100 bp
MarketplaceFeeProviders == {Absent, Some([makerFeeBp |-> 100])}

\* the prices of the listings that are verified: those of the purchases and
\* one so small that 100 bp of it round down to nothing
ListingPrices == Prices \cup {99}

InitVerify ==
    /\ \E sc \in Scenarios \cup {StaleScenario}, price \in ListingPrices,
          makerFeeBp \in MakerFees :
           listing = NewListing(sc, price, makerFeeBp)
    /\ platformFeeAddress = NoAddress
    /\ locals = NoLocals
    /\ error = ""
    /\ utxos = <<>>
    /\ args = [amount |-> 0, vinsLength |-> 0, voutsLength |-> 0, feeRateTier |-> ""]
    /\ dummyResult = NotCalled
    /\ paymentResult = NotCalled
    /\ req = Absent
    /\ \E analyzeResult \in AnalyzeResults, provider \in MarketplaceFeeProviders :
           config = NewConfig(listing.network, analyzeResult, provider)
    /\ verifyResult = NotCalled
    /\ verifyCalls = 0
    /\ mergeCalls = 0
    /\ diagnostic = NoDiagnostic
    /\ checkedAddress = NoAddress
    /\ checkedNetwork = bitcoin
    /\ addressType = ""
    /\ validAddress = Absent
    /\ checkedUtxo = Absent
    /\ containsResult = ""
    /\ defaultInstance = Absent
    /\ built = 0
    /\ rpcCalls = [s \in Sessions |-> 0]
    /\ returned = [s \in Sessions |-> <<>>]
    /\ firstCall = ""
    /\ createArgs = Absent
    /\ createResult = Absent

\* a seller, honest or not, posts a request made from the unsigned listing PSBT
PostSignedListing ==
    /\ listing.seller.unsignedListingPSBTBase64 # Absent
    /\ req = Absent
    /\ \E how \in Signings, tamper \in Tamperings, price \in ListingPrices,
          tokenId \in {listing.seller.ordItem.id, "insX"} :
         LET psbt == fromBase64(listing.seller.unsignedListingPSBTBase64[1])
             posted == Tampered([psbt EXCEPT !.inputs[1] = SignedAs(@, how)], tamper,
                                listing.network)
         IN req' = Some([price |-> price, tokenId |-> tokenId,
                         sellerReceiveAddress |-> listing.seller.sellerReceiveAddress,
                         signedListingPSBTBase64 |-> toBase64(posted)])
    /\ UNCHANGED <<config, verifyResult, verifyCalls>>
    /\ UNCHANGED purchaseVars
    /\ UNCHANGED selectVars
    /\ UNCHANGED addressVars
    /\ UNCHANGED otherVars

\* SellerSigner.verifySignedListingPSBTBase64(req, config)
VerifySignedListingPSBTBase64 ==
    /\ req # Absent
    /\ verifyCalls < MaxVerifyCalls
    /\ LET e == verifySignedListingPSBTBase64(req[1], config)
       IN verifyResult' = IF e = "" THEN Returned(<<>>) ELSE Threw(e)
    /\ verifyCalls' = verifyCalls + 1
    /\ UNCHANGED <<req, config>>
    /\ UNCHANGED purchaseVars
    /\ UNCHANGED selectVars
    /\ UNCHANGED addressVars
    /\ UNCHANGED otherVars

NextVerify ==
    \/ GenerateUnsignedListingPSBTBase64
    \/ PostSignedListing
    \/ VerifySignedListingPSBTBase64

SpecVerify == InitVerify /\ [][NextVerify]_vars

(***************************************************************************)
(* Address classification: getAddressType and isValidAddress applied to   *)
(* one address string under one chain profile                              *)
(***************************************************************************)
Chains == {bitcoin, junkcoinMainnet, litecoinMainnet, dogecoinMainnet}

\* the version bytes of the chains, and one that no chain uses
Base58Versions == {0, 5, 16, 22, 30, 48, 50, 111}

\* the human-readable parts of the chains that have one
Prefixes == {"bc", "jc", "ltc"}

\* witness versions 0 and 1, and a later one
WitnessVersions == {0, 1, 2}

\* address strings: base58check payloads of 20 bytes and of another length
\* (which does not decode), bech32 programs of 20 and 32 bytes, and a string
\* that is neither
AddressStrings ==
    {Address("base58", "", v, 7001, len) : v \in Base58Versions, len \in {20, 32}}
    \cup {Address("bech32", hrp, v, 7001, len) :
              hrp \in Prefixes, v \in WitnessVersions, len \in {20, 32}}
    \cup {NoAddress}

InitAddress ==
    /\ listing = NewListing(CHOOSE sc \in Scenarios : TRUE, 56000, 0)
    /\ platformFeeAddress = NoAddress
    /\ locals = NoLocals
    /\ error = ""
    /\ utxos = <<>>
    /\ args = [amount |-> 0, vinsLength |-> 0, voutsLength |-> 0, feeRateTier |-> ""]
    /\ dummyResult = NotCalled
    /\ paymentResult = NotCalled
    /\ req = Absent
    /\ config = NewConfig(listing.network, Absent, Absent)
    /\ verifyResult = NotCalled
    /\ verifyCalls = 0
    /\ mergeCalls = 0
    /\ diagnostic = NoDiagnostic
    /\ checkedAddress \in AddressStrings
    /\ checkedNetwork \in Chains
    /\ addressType = ""
    /\ validAddress = Absent
    /\ checkedUtxo = Absent
    /\ containsResult = ""
    /\ defaultInstance = Absent
    /\ built = 0
    /\ rpcCalls = [s \in Sessions |-> 0]
    /\ returned = [s \in Sessions |-> <<>>]
    /\ firstCall = ""
    /\ createArgs = Absent
    /\ createResult = Absent

\* getAddressType(address, network)
GetAddressType ==
    /\ addressType = ""
    /\ addressType' = getAddressType(checkedAddress, checkedNetwork)
    /\ UNCHANGED <<checkedAddress, checkedNetwork, validAddress>>
    /\ UNCHANGED purchaseVars
    /\ UNCHANGED selectVars
    /\ UNCHANGED verifyVars
    /\ UNCHANGED otherVars

\* isValidAddress(address, network)
IsValidAddress ==
    /\ validAddress = Absent
    /\ validAddress' = Some(isValidAddress(checkedAddress, checkedNetwork))
    /\ UNCHANGED <<checkedAddress, checkedNetwork, addressType>>
    /\ UNCHANGED purchaseVars
    /\ UNCHANGED selectVars
    /\ UNCHANGED verifyVars
    /\ UNCHANGED otherVars

NextAddress == GetAddressType \/ IsValidAddress

SpecAddress == InitAddress /\ [][NextAddress]_vars

(***************************************************************************)
(* The funding of two new dummy UTXOs from the UTXOs of an address         *)
(***************************************************************************)
\* the address the dummies are created for, with the public key the caller
\* supplies
CreateWallets == BuyerWallets(bitcoin)

\* a confirmed UTXO without inscription that funds two dummies by itself at
\* the fastest fee rate, next to the UTXOs of the selections
U13 == Utxo(13, 0, 4200, TRUE)
CreateUtxos == AddressUtxos \cup {U13}

InitCreate ==
    /\ listing = NewListing(CHOOSE sc \in Scenarios : sc.ordItem = ItemA, 100000, 100)
    /\ platformFeeAddress = NoAddress
    /\ locals = NoLocals
    /\ error = ""
    /\ utxos \in ListsOf(CreateUtxos, MaxUtxos)
    /\ args = [amount |-> 0, vinsLength |-> 0, voutsLength |-> 0, feeRateTier |-> ""]
    /\ dummyResult = NotCalled
    /\ paymentResult = NotCalled
    /\ req = Absent
    /\ config = NewConfig(listing.network, Absent, Absent)
    /\ verifyResult = NotCalled
    /\ verifyCalls = 0
    /\ mergeCalls = 0
    /\ diagnostic = NoDiagnostic
    /\ checkedAddress = NoAddress
    /\ checkedNetwork = bitcoin
    /\ addressType = ""
    /\ validAddress = Absent
    /\ checkedUtxo = Absent
    /\ containsResult = ""
    /\ defaultInstance = Absent
    /\ built = 0
    /\ rpcCalls = [s \in Sessions |-> 0]
    /\ returned = [s \in Sessions |-> <<>>]
    /\ firstCall = ""
    /\ createArgs = Absent
    /\ createResult = Absent

\* BuyerSigner.generateUnsignedCreateDummyUtxoPSBTBase64(address, buyerPublicKey,
\* unqualifiedUtxos, feeRateTier, network, ...)
GenerateUnsignedCreateDummyUtxoPSBTBase64 ==
    /\ createResult = Absent
    /\ \E w \in CreateWallets, feeRateTier \in {"minimumFee", "fastestFee"} :
         /\ createArgs' = Some([address |-> w.buyerAddress,
                                buyerPublicKey |-> w.buyerPublicKey,
                                feeRateTier |-> feeRateTier])
         /\ createResult' = Some(generateUnsignedCreateDummyUtxoPSBTBase64(
                                     w.buyerAddress, w.buyerPublicKey, utxos, feeRateTier,
                                     bitcoin))
    /\ UNCHANGED purchaseVars
    /\ UNCHANGED selectVars
    /\ UNCHANGED verifyVars
    /\ UNCHANGED addressVars
    /\ UNCHANGED containsVars
    /\ UNCHANGED rpcVars

NextCreate == GenerateUnsignedCreateDummyUtxoPSBTBase64

SpecCreate == InitCreate /\ [][NextCreate]_vars

(***************************************************************************)
(* The process-wide default RPC handle: getDefaultRPC and setDefaultRPC    *)
(* called by the sessions of one process                                   *)
(***************************************************************************)
\* FullnodeRPC.fromEnv(): a new instance, the n-th the environment yields
fromEnv(n) == [origin |-> "env", id |-> n]

\* a get that constructs an instance from the environment at every call
getDefaultRPCFresh ==
    [defaultInstance |-> Some(fromEnv(built + 1)), built |-> built + 1]

\* getDefaultRPC(): the module variable and the count of constructed
\* instances after the call; the call returns the instance in the variable
getDefaultRPC ==
    IF defaultInstance = Absent
    THEN [defaultInstance |-> Some(fromEnv(built + 1)), built |-> built + 1]
    ELSE [defaultInstance |-> defaultInstance, built |-> built]

\* setDefaultRPC(instance): the module variable after the call
setDefaultRPC(instance) == Some(instance)

InitRPC ==
    /\ listing = NewListing(CHOOSE sc \in Scenarios : TRUE, 56000, 0)
    /\ platformFeeAddress = NoAddress
    /\ locals = NoLocals
    /\ error = ""
    /\ utxos = <<>>
    /\ args = [amount |-> 0, vinsLength |-> 0, voutsLength |-> 0, feeRateTier |-> ""]
    /\ dummyResult = NotCalled
    /\ paymentResult = NotCalled
    /\ req = Absent
    /\ config = NewConfig(listing.network, Absent, Absent)
    /\ verifyResult = NotCalled
    /\ verifyCalls = 0
    /\ mergeCalls = 0
    /\ diagnostic = NoDiagnostic
    /\ checkedAddress = NoAddress
    /\ checkedNetwork = bitcoin
    /\ addressType = ""
    /\ validAddress = Absent
    /\ checkedUtxo = Absent
    /\ containsResult = ""
    /\ defaultInstance = Absent
    /\ built = 0
    /\ rpcCalls = [s \in Sessions |-> 0]
    /\ returned = [s \in Sessions |-> <<>>]
    /\ firstCall = ""
    /\ createArgs = Absent
    /\ createResult = Absent

\* a session calls getDefaultRPC(): the function is synchronous, so the call
\* runs to completion before any other code of the process
GetDefaultRPC(s) ==
    /\ rpcCalls[s] < MaxRpcCalls
    /\ LET r == getDefaultRPC
       IN /\ defaultInstance' = r.defaultInstance
          /\ built' = r.built
          /\ returned' = [returned EXCEPT ![s] = Append(@, r.defaultInstance[1])]
    /\ rpcCalls' = [rpcCalls EXCEPT ![s] = @ + 1]
    /\ firstCall' = IF firstCall = "" THEN "get" ELSE firstCall
    /\ UNCHANGED purchaseVars
    /\ UNCHANGED selectVars
    /\ UNCHANGED verifyVars
    /\ UNCHANGED addressVars
    /\ UNCHANGED containsVars
    /\ UNCHANGED createVars

\* a session calls setDefaultRPC(instance)
SetDefaultRPC(s) ==
    /\ rpcCalls[s] < MaxRpcCalls
    /\ \E instance \in SuppliedInstances : defaultInstance' = setDefaultRPC(instance)
    /\ rpcCalls' = [rpcCalls EXCEPT ![s] = @ + 1]
    /\ firstCall' = IF firstCall = "" THEN "set" ELSE firstCall
    /\ UNCHANGED <<built, returned>>
    /\ UNCHANGED purchaseVars
    /\ UNCHANGED selectVars
    /\ UNCHANGED verifyVars
    /\ UNCHANGED addressVars
    /\ UNCHANGED containsVars
    /\ UNCHANGED createVars

NextRPC == \E s \in Sessions : GetDefaultRPC(s) \/ SetDefaultRPC(s)

SpecRPC == InitRPC /\ [][NextRPC]_vars

(***************************************************************************)
(* What the properties speak of                                            *)
(***************************************************************************)
HasListing == listing.seller.unsignedListingPSBTBase64 # Absent
ListingPSBT == fromBase64(listing.seller.unsignedListingPSBTBase64[1])
SignedListingPSBT == fromBase64(listing.seller.signedListingPSBTBase64[1])

HasPurchase == listing.buyer # Absent /\ listing.buyer[1].unsignedBuyingPSBTBase64 # Absent
PurchasePSBT == fromBase64(listing.buyer[1].unsignedBuyingPSBTBase64[1])
Buyer == listing.buyer[1]
Dummies == listing.buyer[1].buyerDummyUTXOs
Payments == listing.buyer[1].buyerPaymentUTXOs[1]

HasMerged == listing.buyer # Absent /\ listing.buyer[1].mergedSignedBuyingPSBTBase64 # Absent
MergedPSBT == fromBase64(listing.buyer[1].mergedSignedBuyingPSBTBase64[1])

\* the outpoint "txid:vout" an input of a PSBT spends
SpentOutpoint(txInput) == Outpoint(generateTxidFromHash(txInput.hash), txInput.index)

\* the address and the value of an output of a PSBT
OutputAddress(psbt, i) == fromOutputScript(psbt.txOutputs[i].script, listing.network)
OutputValue(psbt, i) == psbt.txOutputs[i].value

\* seller_payout of the specification
seller_payout(price, maker_fee_bp, output_value) ==
    price - ((price \div 10000) * maker_fee_bp + ((price % 10000) * maker_fee_bp) \div 10000)
        + output_value

\* the offset the indexer reports for each inscription of the model
OffsetOf(item) ==
    CASE item.id = "insA" -> 0
      [] item.id = "insB" -> 3000
      [] item.id = "insC" -> 545

\* C1: in every purchase PSBT inputs 0 and 1 spend the two dummy UTXOs in the
\* given order, input 2 spends ord_item.output, inputs 3..k spend the payment
\* UTXOs in the given order, and output 2 pays seller.receive_address exactly
\* seller_payout(price, maker_fee_bp, ord_item.output_value)
C1_PurchaseLayout ==
    HasPurchase =>
        LET p == PurchasePSBT IN
        /\ Len(p.txInputs) = 3 + Len(Payments)
        /\ Len(p.inputs) = Len(p.txInputs)
        /\ \A i \in 1..2 : SpentOutpoint(p.txInputs[i]) = Outpoint(Dummies[i].txid, Dummies[i].vout)
        /\ SpentOutpoint(p.txInputs[BUYING_PSBT_SELLER_SIGNATURE_INDEX + 1])
               = listing.seller.ordItem.output
        /\ \A j \in 1..Len(Payments) :
               SpentOutpoint(p.txInputs[3 + j]) = Outpoint(Payments[j].txid, Payments[j].vout)
        /\ Len(p.txOutputs) >= 3
        /\ OutputAddress(p, 3) = listing.seller.sellerReceiveAddress
        /\ OutputValue(p, 3) = seller_payout(listing.seller.price, listing.seller.makerFeeBp,
                                             listing.seller.ordItem.outputValue)

\* a purchase PSBT with two payment inputs given in ascending order of value
C1_Witness ==
    /\ HasPurchase
    /\ Len(Payments) = 2
    /\ Payments[1].value < Payments[2].value
    /\ listing.seller.makerFeeBp > 0

\* C2: after listing, purchase and merge on one listing state, input 2 of the
\* merged PSBT has the outpoint and the SIGHASH_SINGLE|ANYONECANPAY metadata
\* of input 0 of the listing PSBT, and its output 2 equals output 0 of the
\* listing PSBT in address and value
C2_MergedSpliceSlot ==
    HasMerged =>
        LET m == MergedPSBT
            k == BUYING_PSBT_SELLER_SIGNATURE_INDEX + 1
        IN /\ SpentOutpoint(m.txInputs[k]) = SpentOutpoint(ListingPSBT.txInputs[1])
           /\ SpentOutpoint(m.txInputs[k]) = listing.seller.ordItem.output
           /\ m.inputs[k].sighashType = Some(SIGHASH_SINGLE_ANYONECANPAY)
           /\ m.inputs[k] = SignedListingPSBT.inputs[1]
           /\ OutputAddress(m, k) = OutputAddress(ListingPSBT, 1)
           /\ OutputValue(m, k) = OutputValue(ListingPSBT, 1)
           /\ m.txOutputs[k] = ListingPSBT.txOutputs[1]

\* a merged PSBT with a payment input after the spliced seller input
C2_Witness ==
    /\ HasMerged
    /\ Len(MergedPSBT.txInputs) > 3
    /\ MergedPSBT.inputs[3].finalScriptWitness = Some(SchnorrWitness)

\* C3: output 0 of every purchase PSBT pays the buyer payment address exactly
\* dummy1.value + dummy2.value + offset, the third field of ord_item.location,
\* and output 1 pays the buyer token receive address ORDINALS_POSTAGE_VALUE
C3_DummyAndReceiveOutputs ==
    HasPurchase =>
        LET p == PurchasePSBT IN
        /\ OutputAddress(p, 1) = Buyer.buyerAddress
        /\ OutputValue(p, 1) = Dummies[1].value + Dummies[2].value + OffsetOf(listing.seller.ordItem)
        /\ OutputAddress(p, 2) = Buyer.buyerTokenReceiveAddress
        /\ OutputValue(p, 2) = 10000
        /\ ORDINALS_POSTAGE_VALUE = 10000

\* the purchase of the inscription at offset 3000 with two dummies of 600:
\* output 0 is 4200
C3_Witness ==
    /\ HasPurchase
    /\ listing.seller.ordItem = ItemB
    /\ Dummies[1].value = 600 /\ Dummies[2].value = 600
    /\ OutputValue(PurchasePSBT, 1) = 4200

\* the value of the output an input of the purchase spends: a dummy, a
\* payment UTXO or the inscription output
SpentValue(txInput) ==
    IF SpentOutpoint(txInput) = listing.seller.ordItem.output
    THEN listing.seller.ordItem.outputValue
    ELSE LET known == Dummies \o Payments
             i == CHOOSE i \in DOMAIN known :
                      Outpoint(known[i].txid, known[i].vout) = SpentOutpoint(txInput)
         IN known[i].value

RECURSIVE SumSpent(_)
SumSpent(txInputs) ==
    IF txInputs = <<>> THEN 0 ELSE SpentValue(txInputs[1]) + SumSpent(Tail(txInputs))

\* the index of the input that spends the inscription output
OrdinalInput(psbt) ==
    CHOOSE i \in DOMAIN psbt.txInputs :
        SpentOutpoint(psbt.txInputs[i]) = listing.seller.ordItem.output

\* the position of the inscription's satoshi in the stream of input satoshis
InscriptionPosition(psbt) ==
    SumSpent(SubSeq(psbt.txInputs, 1, OrdinalInput(psbt) - 1)) + OffsetOf(listing.seller.ordItem)

\* the position of the first satoshi of output i (1-based) in the stream, when
\* input satoshis are assigned to the outputs first-in-first-out
OutputStart(psbt, i) == SumValues(SubSeq(psbt.txOutputs, 1, i - 1))

\* C4: for dummies in [DUMMY_MIN, DUMMY_MAX] and 0 <= offset < output_value,
\* the satoshi at position dummy1 + dummy2 + offset of the input stream, the
\* inscription's satoshi, is the first satoshi of output 1
C4_OrdinalPreservation ==
    HasPurchase =>
        LET p == PurchasePSBT
            pos == InscriptionPosition(p)
        IN /\ \A i \in 1..2 : Dummies[i].value >= 580 /\ Dummies[i].value <= 1000
           /\ OffsetOf(listing.seller.ordItem) < listing.seller.ordItem.outputValue
           /\ pos = Dummies[1].value + Dummies[2].value + OffsetOf(listing.seller.ordItem)
           /\ OutputStart(p, BUYING_PSBT_BUYER_RECEIVE_INDEX + 1) = pos
           /\ pos < OutputStart(p, BUYING_PSBT_BUYER_RECEIVE_INDEX + 2)
           /\ OutputAddress(p, BUYING_PSBT_BUYER_RECEIVE_INDEX + 1) = Buyer.buyerTokenReceiveAddress

\* the inscription on the last satoshi of its output, behind dummies of 580 and 1000
C4_Witness ==
    /\ HasPurchase
    /\ listing.seller.ordItem = ItemC
    /\ Dummies[1].value = 580 /\ Dummies[2].value = 1000
    /\ InscriptionPosition(PurchasePSBT) = 2125

\* the platform fee output is the one output that pays the platform address
FeePresent(psbt) ==
    \E i \in DOMAIN psbt.txOutputs : OutputAddress(psbt, i) = PlatformAddress(listing.network)

\* the outputs every purchase has: 0, 1, 2, the platform fee when present and
\* the two new dummies; the change output is one more
BaseOutputs(psbt) == IF FeePresent(psbt) THEN 6 ELSE 5
ChangePresent(psbt) == Len(psbt.txOutputs) = BaseOutputs(psbt) + 1

\* what the transaction leaves to the miner
MinerFee(psbt) == SumSpent(psbt.txInputs) - SumValues(psbt.txOutputs)

\* estimated_fee of the specification (4.4): the cost model at the fee rate of the tier
estimated_fee(n_in, n_out, tier) == getFees(tier) * (180 * n_in + 34 * n_out + 10)

\* C5 as stated: the inputs, the seller's inscription input included, minus
\* the outputs equal the fee the builder computed, and that fee is at least
\* estimated_fee for the final input and output counts
C5_Original ==
    HasPurchase =>
        LET p == PurchasePSBT
        IN /\ MinerFee(p) = locals.fee
           /\ locals.fee >= estimated_fee(Len(p.txInputs), Len(p.txOutputs), Buyer.feeRateTier)

\* C5 as amended: the inputs minus the outputs equal the computed fee plus
\* ord_item.output_value, which the builder never counts as input, plus the
\* remainder when the change output is omitted; the computed fee is at least
\* estimated_fee for the final input and output counts
C5_FeeAccounting ==
    HasPurchase =>
        LET p == PurchasePSBT
        IN /\ MinerFee(p) = locals.fee + listing.seller.ordItem.outputValue
                            + (IF ChangePresent(p) THEN 0 ELSE locals.changeValue)
           /\ MinerFee(p) >= locals.fee
           /\ locals.fee >= estimated_fee(Len(p.txInputs), Len(p.txOutputs), Buyer.feeRateTier)

\* a purchase with two payment inputs and a change output
C5_Witness ==
    /\ HasPurchase
    /\ Len(Payments) = 2
    /\ ChangePresent(PurchasePSBT)
    /\ MinerFee(PurchasePSBT) = locals.fee + 10000

\* C6: the listing PSBT has exactly one input, the outpoint ord_item.output
\* with sighash SINGLE|ANYONECANPAY, and exactly one output, to
\* seller.receive_address, of value price - floor(price * maker_fee_bp / 10000)
\* + ord_item.output_value (109000 and 99010000 in the two examples)
C6_ListingPsbt ==
    HasListing =>
        LET p == ListingPSBT
            s == listing.seller
        IN /\ Len(p.txInputs) = 1 /\ Len(p.inputs) = 1 /\ Len(p.txOutputs) = 1
           /\ SpentOutpoint(p.txInputs[1]) = s.ordItem.output
           /\ p.inputs[1].sighashType = Some(3 + 128)
           /\ OutputAddress(p, 1) = s.sellerReceiveAddress
           /\ OutputValue(p, 1) = seller_payout(s.price, s.makerFeeBp, s.ordItem.outputValue)
           /\ (s.price = 100000 /\ s.makerFeeBp = 100 /\ s.ordItem.outputValue = 10000
                  => OutputValue(p, 1) = 109000)
           /\ (s.price = 100000000 /\ s.makerFeeBp = 100 /\ s.ordItem.outputValue = 10000
                  => OutputValue(p, 1) = 99010000)

\* the listing of the junkcoin scenario: 100000000 at 100 bp with postage 10000
C6_Witness ==
    /\ HasListing
    /\ listing.seller.price = 100000000 /\ listing.seller.makerFeeBp = 100
    /\ listing.seller.ordItem.outputValue = 10000
    /\ OutputValue(ListingPSBT, 1) = 99010000

\* floor(price * (maker_fee_bp + taker_fee_bp) / 10000) of the purchase
platform_fee ==
    LET bp == listing.seller.makerFeeBp + Buyer.takerFeeBp
        price == listing.seller.price
    IN (price \div 10000) * bp + ((price % 10000) * bp) \div 10000

\* the platform fee output of the layout, omitted at or below the threshold or
\* without a fee address
PlatformFeeLayout(threshold) ==
    HasPurchase =>
        LET p == PurchasePSBT
            k == BUYING_PSBT_PLATFORM_FEE_INDEX + 1
        IN /\ FeePresent(p) <=> ~(platform_fee <= threshold \/ platformFeeAddress = NoAddress)
           /\ FeePresent(p) =>
                  /\ OutputAddress(p, k) = platformFeeAddress
                  /\ OutputValue(p, k) = platform_fee
                  /\ \A i \in DOMAIN p.txOutputs :
                         OutputAddress(p, i) = PlatformAddress(listing.network) => i = k

\* C7 as stated: the platform fee output is omitted exactly when its value is
\* at most the dust limit of the chain or no fee address is configured
C7_Original == PlatformFeeLayout(dustLimit)

\* C7 as amended: the platform fee output, when present, is output 3, pays the
\* fee address floor(price * (maker_fee_bp + taker_fee_bp) / 10000), and is
\* omitted exactly when that value is at most DUMMY_UTXO_MIN_VALUE (580) or no
\* fee address is configured
C7_PlatformFeeOutput == PlatformFeeLayout(DUMMY_UTXO_MIN_VALUE)

\* a fee of 560, above the dust limit of 546, with a fee address: no fee output
C7_Witness ==
    /\ HasPurchase
    /\ platformFeeAddress # NoAddress
    /\ platform_fee = 560
    /\ ~FeePresent(PurchasePSBT)

\* the remainder: the buyer's inputs minus every output but the change minus the fee
Remainder(psbt) ==
    SumValues(Dummies) + SumValues(Payments)
        - SumValues(SubSeq(psbt.txOutputs, 1, BaseOutputs(psbt))) - locals.fee

NodeFails(u) ==
    /\ ~u.status.confirmed
    /\ LET tx == getrawtransactionVerbose(u.txid)
       IN \/ tx.fails
          \/ \E i \in DOMAIN tx.vin : getrawtransactionVerbose(tx.vin[i].txid).fails

contains_inscription(u) ==
    IF u.status.confirmed
    THEN getTokenByOutput(Outpoint(u.txid, u.vout)) # "null"
    ELSE \/ NodeFails(u)
         \/ LET tx == getrawtransactionVerbose(u.txid)
            IN \E i \in DOMAIN tx.vin :
                   \/ getrawtransactionVerbose(tx.vin[i].txid).confirmations = 0
                   \/ getTokenByOutput(Outpoint(tx.vin[i].txid, tx.vin[i].vout)) # "null"

\* C9: with providers that answer the same each time, no UTXO returned by
\* select_dummy_utxos or by select_payment_utxos contains an inscription
C9_NoInscriptionSelected ==
    /\ dummyResult.status = "returned" =>
           \A i \in DOMAIN dummyResult.value : ~contains_inscription(dummyResult.value[i])
    /\ paymentResult.status = "returned" =>
           \A i \in DOMAIN paymentResult.value : ~contains_inscription(paymentResult.value[i])

\* both selections returned from a list that holds an inscription-bearing
\* UTXO of a value that fits a dummy and a payment
C9_Witness ==
    /\ dummyResult.status = "returned"
    /\ paymentResult.status = "returned"
    /\ paymentResult.value # <<>>
    /\ \E i \in DOMAIN utxos :
           /\ contains_inscription(utxos[i])
           /\ utxos[i].value > 600 /\ utxos[i].value <= 1000

\* the positions of the list that qualify as dummies
Qualifying ==
    {i \in DOMAIN utxos :
        /\ ~contains_inscription(utxos[i])
        /\ utxos[i].value >= 580 /\ utxos[i].value <= 1000}

Least(S) == CHOOSE i \in S : \A j \in S : i <= j

SameUtxo(m, u) ==
    m.txid = u.txid /\ m.vout = u.vout /\ m.value = u.value /\ m.status = u.status

\* C10: select_dummy_utxos returns exactly the first two UTXOs of the list, in
\* order, that carry no inscription and have a value in [580, 1000], and None
\* when fewer than two qualify; it returns no UTXO out of the range and no
\* tainted one.  A node that fails on a UTXO makes the call throw; the results
\* are those of the calls that return.
C10_SelectDummy ==
    /\ dummyResult.status \in {"idle", "returned", "null", "ProviderError"}
    /\ dummyResult.status = "returned" =>
           /\ Cardinality(Qualifying) >= 2
           /\ Len(dummyResult.value) = 2
           /\ SameUtxo(dummyResult.value[1], utxos[Least(Qualifying)])
           /\ SameUtxo(dummyResult.value[2], utxos[Least(Qualifying \ {Least(Qualifying)})])
           /\ \A i \in 1..2 :
                  /\ dummyResult.value[i].value >= 580 /\ dummyResult.value[i].value <= 1000
                  /\ ~contains_inscription(dummyResult.value[i])
    /\ dummyResult.status = "null" => Cardinality(Qualifying) < 2
    /\ (dummyResult.status # "idle" /\ \A i \in DOMAIN utxos : ~NodeFails(utxos[i])) =>
           dummyResult.status = IF Cardinality(Qualifying) >= 2 THEN "returned" ELSE "null"

\* the taint guard scenario: a tainted unconfirmed 700, a clean 700 and a
\* clean 50000 leave one dummy only, and the selection returns None
C10_Witness ==
    /\ utxos = <<U1, U2, U3>>
    /\ dummyResult.status = "null"
    /\ Qualifying = {2}

\* the positions of the list a payment may be taken from: a value above
\* DUMMY_VALUE and no inscription
Eligible ==
    {i \in DOMAIN utxos : utxos[i].value > 600 /\ ~contains_inscription(utxos[i])}

RECURSIVE SumAt(_)
SumAt(S) == IF S = {} THEN 0 ELSE LET i == Least(S) IN utxos[i].value + SumAt(S \ {i})

\* some choice of eligible UTXOs pays amount and the fee of spending them
CanCover ==
    \E S \in SUBSET Eligible :
        SumAt(S) >= args.amount
                    + estimated_fee(args.vinsLength + Cardinality(S), args.voutsLength,
                                    args.feeRateTier)

PaymentCalled == paymentResult.status \notin {"idle", "ProviderError"}

\* C11 as stated: select_payment_utxos fails with the insufficient-funds error
\* whenever the eligible UTXOs cannot cover amount + fee, and never returns a
\* selection whose sum is below amount + estimated_fee for the inputs selected
C11_Original ==
    PaymentCalled =>
        /\ ~CanCover => paymentResult.status = "Not enough cardinal spendable funds."
        /\ paymentResult.status = "returned" =>
               SumValues(paymentResult.value) >=
                   args.amount + estimated_fee(args.vinsLength + Len(paymentResult.value),
                                               args.voutsLength, args.feeRateTier)

\* what the code ensures: the error is thrown exactly when the eligible UTXOs
\* sum to less than amount, the fee left aside
C11_FailsBelowAmount ==
    PaymentCalled =>
        /\ paymentResult.status = "Not enough cardinal spendable funds."
               <=> SumAt(Eligible) < args.amount
        /\ paymentResult.status = "returned" => SumValues(paymentResult.value) >= args.amount

\* the buyer holds 50000, asks for 49500 and gets the 50000 back, which
\* leaves 500 for a fee of 968
C11_Witness ==
    /\ utxos = <<U3>>
    /\ args.amount = 49500
    /\ args.feeRateTier = "minimumFee"
    /\ paymentResult.status = "returned"
    /\ SumValues(paymentResult.value) = 50000

\* the request that was posted and the PSBT it carries
Request == req[1]
PostedPSBT == fromBase64(Request.signedListingPSBTBase64)

VerifyCalled == verifyResult.status # "idle"
Accepted == verifyResult.status = "returned"

\* the messages of the InvalidArgument errors of the verification
InvalidArgumentMessages ==
    {"Invalid signature - no taproot signature present",
     "Invalid signature - no finalScriptWitness", "Invalid signature",
     "Invalid number of inputs", "Invalid tokenId", "Invalid price",
     "Invalid sellerReceiveAddress", "Invalid seller address"}

RejectedInvalidArgument == verifyResult.status \in InvalidArgumentMessages

\* the items the indexer resolves the outpoint of input 0 to
ResolvedItems == {it \in Items : it.output = SpentOutpoint(PostedPSBT.txInputs[1])}

\* check 1: the input count is 1
InputCountCheck == Len(PostedPSBT.txInputs) = 1

\* check 2: every tap-internal-key input has a finalized witness that is not
\* the empty Schnorr sentinel, and the node reports inputs[0].is_final
SignatureCheck ==
    /\ \A i \in DOMAIN PostedPSBT.inputs :
           PostedPSBT.inputs[i].tapInternalKey # Absent =>
               /\ PostedPSBT.inputs[i].finalScriptWitness # Absent
               /\ PostedPSBT.inputs[i].finalScriptWitness[1] \notin {<<>>, <<1, 65>>}
    /\ config.rpcProvider.analyzepsbt # Absent
    /\ config.rpcProvider.analyzepsbt[1].inputs # <<>>
    /\ config.rpcProvider.analyzepsbt[1].inputs[1].is_final

\* check 3: the outpoint resolves to an item whose id is req.token_id
IdentityCheck == \E it \in ResolvedItems : it.id = Request.tokenId

\* the maker fee of the marketplace-fee provider, 0 when there is none
maker_fee_bp == IF config.marketplaceFeeProvider = Absent THEN 0 ELSE 100

\* check 4: the single output's value is seller_payout
PriceCheck ==
    /\ PostedPSBT.txOutputs # <<>>
    /\ \E it \in ResolvedItems :
           PostedPSBT.txOutputs[1].value =
               seller_payout(Request.price, maker_fee_bp, it.outputValue)

\* check 5: the output's address is req.seller_receive_address
ReceiveAddressCheck ==
    /\ PostedPSBT.txOutputs # <<>>
    /\ OutputAddress(PostedPSBT, 1) = Request.sellerReceiveAddress

\* check 6: the previous output script of the input decodes to item.owner
SellerAddressCheck ==
    \E it \in ResolvedItems :
        LET prev == getrawtransaction(generateTxidFromHash(PostedPSBT.txInputs[1].hash))
            k == PostedPSBT.txInputs[1].index + 1
        IN /\ k \in DOMAIN prev.outs
           /\ fromOutputScript(prev.outs[k].script, config.network) = it.owner

AllChecks ==
    /\ InputCountCheck /\ SignatureCheck /\ IdentityCheck
    /\ PriceCheck /\ ReceiveAddressCheck /\ SellerAddressCheck

\* C12 as stated: verify_signed_listing rejects with InvalidArgument if and
\* only if at least one of the six checks fails, and accepts by returning
\* normally in every other case
C12_Original ==
    VerifyCalled =>
        /\ RejectedInvalidArgument <=> ~AllChecks
        /\ AllChecks => Accepted

\* what the code ensures: it accepts exactly when the six checks pass, it
\* rejects with InvalidArgument every failing request that has an output, and
\* a request of one input without an output that passes checks 1 to 3 ends in
\* a TypeError
C12_VerifyChecks ==
    VerifyCalled =>
        /\ Accepted <=> AllChecks
        /\ (~AllChecks /\ PostedPSBT.txOutputs # <<>>) => RejectedInvalidArgument
        /\ ~(Accepted \/ RejectedInvalidArgument) =>
               /\ verifyResult.status = "TypeError"
               /\ PostedPSBT.txOutputs = <<>>
               /\ InputCountCheck /\ SignatureCheck /\ IdentityCheck

\* a posted listing of one finalized input and no output, which the node
\* reports final, ends in a TypeError
C12_Witness ==
    /\ VerifyCalled
    /\ PostedPSBT.txOutputs = <<>>
    /\ InputCountCheck /\ SignatureCheck /\ IdentityCheck
    /\ verifyResult.status = "TypeError"

\* C13: a signed listing that passes the signature, input-count and
\* inscription-identity checks but whose output 0 value differs from
\* seller_payout(req.price, maker fee bp of the marketplace-fee provider or 0,
\* item.output_value) is rejected with the error 'Invalid price'
C13_InvalidPrice ==
    (/\ VerifyCalled
     /\ InputCountCheck /\ SignatureCheck /\ IdentityCheck
     /\ PostedPSBT.txOutputs # <<>>
     /\ \A it \in ResolvedItems :
            PostedPSBT.txOutputs[1].value #
                seller_payout(Request.price, maker_fee_bp, it.outputValue))
        => verifyResult.status = "Invalid price"

\* the listing of price 100000 at 100 bp whose single output pays 108999
\* instead of 109000, signed, final and of the claimed token
C13_Witness ==
    /\ VerifyCalled
    /\ InputCountCheck /\ SignatureCheck /\ IdentityCheck
    /\ Request.price = 100000
    /\ maker_fee_bp = 100
    /\ PostedPSBT.txOutputs # <<>>
    /\ PostedPSBT.txOutputs[1].value = 108999
    /\ ReceiveAddressCheck /\ SellerAddressCheck
    /\ verifyResult.status = "Invalid price"

\* the signed buying PSBT the merge was given
SignedBuyingPSBT == fromBase64(listing.buyer[1].signedBuyingPSBTBase64[1])

\* C14: merge changes only input slot 2 of the buyer PSBT, replacing its
\* transaction input and its PSBT input metadata by those of the seller
\* PSBT's input 0; every other buyer input and its metadata, every output and
\* the input and output counts are those of the buyer PSBT, and no seller
\* output is copied
C14_MergeFrame ==
    HasMerged =>
        LET m == MergedPSBT
            b == SignedBuyingPSBT
            s == SignedListingPSBT
        IN /\ Len(m.txInputs) = Len(b.txInputs)
           /\ Len(m.inputs) = Len(b.inputs)
           /\ Len(m.txOutputs) = Len(b.txOutputs)
           /\ m.txInputs[3] = s.txInputs[1]
           /\ m.inputs[3] = s.inputs[1]
           /\ \A i \in DOMAIN b.txInputs :
                  i # 3 => m.txInputs[i] = b.txInputs[i] /\ m.inputs[i] = b.inputs[i]
           /\ \A i \in DOMAIN b.txOutputs : m.txOutputs[i] = b.txOutputs[i]

\* a merge into a buyer PSBT of five inputs whose slot 2 was unsigned and
\* without sighash type, for a seller who signed with a script
C14_Witness ==
    /\ HasMerged
    /\ Len(SignedBuyingPSBT.txInputs) = 5
    /\ SignedBuyingPSBT.inputs[3].finalScriptSig = Absent
    /\ SignedBuyingPSBT.inputs[3].sighashType = Absent
    /\ MergedPSBT.inputs[3].finalScriptSig = Some(SignatureScript)
    /\ MergedPSBT.inputs[3].sighashType = Some(131)
    /\ MergedPSBT.inputs[4].finalScriptSig = Some(SignatureScript)

BuildCalled == HasPurchase \/ error # ""

\* the messages of the InvalidArgument errors of the purchase builder
BuilderInvalidArgumentMessages ==
    {"Buyer address is not set", "Buyer address has not enough utxos",
     "Your wallet doesn't have enough funds to buy this inscription."}

BuyerIsP2SH ==
    /\ listing.buyer # Absent
    /\ Buyer.buyerAddress.enc = "base58"
    /\ Buyer.buyerAddress.version = listing.network.scriptHash

\* the positions of the buyer's inputs in a purchase PSBT: all but slot 2
BuyerInputs(psbt) == DOMAIN psbt.inputs \ {3}

\* every buyer input carries a witness_utxo and the redeem script of
\* p2sh(p2wpkh(buyer_pubkey))
CarriesP2SHData(psbt) ==
    \A i \in BuyerInputs(psbt) :
        /\ psbt.inputs[i].witnessUtxo # Absent
        /\ psbt.inputs[i].witnessUtxo[1].script.type = "p2sh"
        /\ psbt.inputs[i].witnessUtxo[1].value = SpentValue(psbt.txInputs[i])
        /\ psbt.inputs[i].redeemScript = Some(p2wpkhOutput(Buyer.buyerPublicKey))
        /\ psbt.inputs[i].witnessUtxo[1].script =
               p2shOutput(p2wpkhOutput(Buyer.buyerPublicKey))

\* C16 as stated: with a P2SH payment address and no buyer public key the
\* builder fails with an InvalidArgument error, and with the key every buyer
\* input carries a witness_utxo and the redeem script of p2sh(p2wpkh(key))
C16_Original ==
    /\ (BuyerIsP2SH /\ Buyer.buyerPublicKey = Absent /\ BuildCalled) =>
           error \in BuilderInvalidArgumentMessages
    /\ (BuyerIsP2SH /\ HasPurchase) =>
           Buyer.buyerPublicKey # Absent /\ CarriesP2SHData(PurchasePSBT)

\* what the code ensures: without the key the builder ends in a TypeError and
\* stores no PSBT; with the key every buyer input carries both fields
C16_P2SHInputs ==
    /\ (BuyerIsP2SH /\ Buyer.buyerPublicKey = Absent /\ BuildCalled) =>
           error = "TypeError" /\ ~HasPurchase
    /\ (BuyerIsP2SH /\ HasPurchase) =>
           Buyer.buyerPublicKey # Absent /\ CarriesP2SHData(PurchasePSBT)

\* a P2SH buyer without a key whose build was attempted with funds that
\* would have sufficed
C16_Witness ==
    /\ BuyerIsP2SH
    /\ Buyer.buyerPublicKey = Absent
    /\ error = "TypeError"
    /\ listing.seller.price = 100000
    /\ SumValues(Payments) >= 200000

\* the outputs of a purchase before the change: the dummy output, the
\* postage, the seller payout, the platform fee when it is paid and the two
\* new dummies
purchase_outputs ==
    Dummies[1].value + Dummies[2].value + OffsetOf(listing.seller.ordItem) + 10000
        + seller_payout(listing.seller.price, listing.seller.makerFeeBp,
                        listing.seller.ordItem.outputValue)
        + (IF platform_fee > 580 /\ platformFeeAddress # NoAddress THEN platform_fee ELSE 0)
        + 600 + 600

\* the fee of the purchase: the cost model for its inputs, its outputs and a
\* change output
purchase_fee ==
    estimated_fee(3 + Len(Payments),
                  (IF platform_fee > 580 /\ platformFeeAddress # NoAddress THEN 6 ELSE 5) + 1,
                  Buyer.feeRateTier)

\* the total of the buyer's dummy and payment UTXOs
buyer_total == SumValues(Dummies) + SumValues(Payments)

InsufficientFunds == error = "Your wallet doesn't have enough funds to buy this inscription."

\* the satoshis a figure of the message stands for
FromBtc(btc) == btc.whole * 100000000 + btc.frac

\* C17: the purchase builder fails with the insufficient-funds error exactly
\* when the buyer's dummy and payment UTXOs cannot cover the purchase outputs
\* plus the fee, and the message then reports the exact shortfall: what the
\* buyer must contribute minus the total of those UTXOs
C17_InsufficientFunds ==
    (/\ BuildCalled
     /\ error \notin {"Buyer address is not set", "Buyer address has not enough utxos",
                      "TypeError", "AddressError", "ProviderError"})
        => /\ InsufficientFunds <=> buyer_total < purchase_outputs + purchase_fee
           /\ InsufficientFunds =>
                  /\ FromBtc(diagnostic.missing) = purchase_outputs + purchase_fee - buyer_total
                  /\ FromBtc(diagnostic.required) = purchase_outputs + purchase_fee
                  /\ FromBtc(diagnostic.price) = listing.seller.price
                  /\ diagnostic.missing.frac \in 0..99999999
                  /\ ~HasPurchase

\* the buyer holds one payment UTXO of 50000 and buys at 100000
C17_Witness ==
    /\ InsufficientFunds
    /\ Payments = <<P1>>
    /\ listing.seller.price = 100000
    /\ FromBtc(diagnostic.missing) > 50000
    /\ FromBtc(diagnostic.missing) = purchase_outputs + purchase_fee - buyer_total

\* C18: a call of generateUnsignedListingPSBTBase64 or of
\* generateUnsignedBuyingPSBTBase64 that fails (validation error, provider
\* error, insufficient funds) leaves the listing state document exactly as it
\* was; the unsigned listing PSBT, the unsigned buying PSBT and the recorded
\* input size are written only by a call that succeeds, and the last two
\* together
C18_FailureLeavesListing ==
    [][/\ (error = "" /\ error' # "") => listing' = listing
       /\ listing'.seller.unsignedListingPSBTBase64 # listing.seller.unsignedListingPSBTBase64
              => error' = ""
       /\ (/\ listing.buyer # Absent
           /\ \/ listing'.buyer[1].unsignedBuyingPSBTBase64
                     # listing.buyer[1].unsignedBuyingPSBTBase64
              \/ listing'.buyer[1].unsignedBuyingPSBTInputSize
                     # listing.buyer[1].unsignedBuyingPSBTInputSize)
              => /\ error' = ""
                 /\ listing'.buyer[1].unsignedBuyingPSBTBase64 # Absent
                 /\ listing'.buyer[1].unsignedBuyingPSBTInputSize =
                        Some(Len(fromBase64(listing'.buyer[1].unsignedBuyingPSBTBase64[1]).inputs))]_vars

\* a purchase build stopped by a provider for a buyer whose funds suffice:
\* nothing of the build is in the document
C18_Witness ==
    /\ error = "ProviderError"
    /\ listing.buyer # Absent
    /\ listing.buyer[1].unsignedBuyingPSBTBase64 = Absent
    /\ listing.buyer[1].unsignedBuyingPSBTInputSize = Absent
    /\ listing.seller.price = 100000
    /\ SumValues(Payments) >= 200000

(***************************************************************************)
(* C19                                                                     *)
(***************************************************************************)
\* the classification as the specification words it: base58check under the
\* chain's version bytes, bech32 only under the chain's human-readable part
classify_address(address, network) ==
    IF address.enc = "base58" /\ address.len = 20 /\ address.version = network.pubKeyHash
        THEN "p2pkh"
    ELSE IF address.enc = "base58" /\ address.len = 20 /\ address.version = network.scriptHash
        THEN "p2sh"
    ELSE IF address.enc = "bech32" /\ network.bech32 # "" /\ address.hrp = network.bech32
        THEN IF address.version = 0 THEN (IF address.len = 20 THEN "p2wpkh" ELSE "p2wsh")
             ELSE IF address.version = 1 THEN "p2tr" ELSE "unknown"
    ELSE "unknown"

\* a bech32 address whose human-readable part is another chain's
ForeignBech32 ==
    /\ checkedAddress.enc = "bech32"
    /\ checkedNetwork.bech32 # ""
    /\ checkedAddress.hrp # checkedNetwork.bech32

\* C19 as stated: the address is classified by its base58 version under the
\* chain's version bytes or by its bech32 program only when the
\* human-readable part is the chain's, it is "unknown" otherwise, and
\* isValidAddress holds exactly when the classification is not "unknown"
C19_Original ==
    /\ addressType # "" => addressType = classify_address(checkedAddress, checkedNetwork)
    /\ validAddress # Absent =>
           (validAddress[1] <=> classify_address(checkedAddress, checkedNetwork) # "unknown")

\* C19, what the code does: the classification is that of C19 except for a
\* bech32 address of another chain's human-readable part, which a chain with
\* a human-readable part of its own classifies by its witness program all the
\* same; on a chain without one every bech32 address is "unknown"
C19_ClassifyAddress ==
    /\ addressType # "" =>
           /\ ~ForeignBech32 =>
                  addressType = classify_address(checkedAddress, checkedNetwork)
           /\ ForeignBech32 =>
                  addressType = classify_address(checkedAddress,
                                    [checkedNetwork EXCEPT !.bech32 = checkedAddress.hrp])
           /\ (checkedNetwork.bech32 = "" /\ checkedAddress.enc = "bech32") =>
                  addressType = "unknown"
    /\ (addressType # "" /\ validAddress # Absent) =>
           (validAddress[1] <=> addressType # "unknown")

\* a litecoin bech32 key-hash address was classified under the bitcoin profile
C19_Witness ==
    /\ checkedNetwork = bitcoin
    /\ checkedAddress = Address("bech32", "ltc", 0, 7001, 20)
    /\ addressType = "p2wpkh"
    /\ validAddress = Some(TRUE)

(***************************************************************************)
(* C20                                                                     *)
(***************************************************************************)
\* the purchase builder has run: it stored a PSBT, or it threw (an error on
\* a published listing is the builder's)
PurchaseBuildCalled ==
    HasPurchase \/ (error # "" /\ listing.seller.signedListingPSBTBase64 # Absent)

MissingBuyerAddress ==
    \/ listing.buyer = Absent
    \/ listing.buyer[1].buyerAddress = NoAddress
    \/ listing.buyer[1].buyerTokenReceiveAddress = NoAddress

MissingUtxos ==
    /\ listing.buyer # Absent
    /\ \/ Len(listing.buyer[1].buyerDummyUTXOs) # 2
       \/ listing.buyer[1].buyerPaymentUTXOs = Absent

\* the two leading inputs of the PSBT spend the two dummy UTXOs of the buyer,
\* the others are the seller's input and the payment inputs
ConsumesTwoDummies(psbt) ==
    /\ Len(listing.buyer[1].buyerDummyUTXOs) = 2
    /\ Len(psbt.txInputs) = 2 + 1 + Len(listing.buyer[1].buyerPaymentUTXOs[1])
    /\ \A i \in 1..2 :
           SpentOutpoint(psbt.txInputs[i]) =
               Outpoint(listing.buyer[1].buyerDummyUTXOs[i].txid,
                        listing.buyer[1].buyerDummyUTXOs[i].vout)

\* C20: a build for a listing without a buyer payment address or token
\* receive address, with a dummy UTXO list that does not hold exactly two
\* entries or without a payment UTXO list throws an InvalidArgumentError
\* whether the providers answer or not and stores no PSBT; every PSBT the
\* builder stores spends exactly the two dummy UTXOs of the buyer
C20_EarlyValidation ==
    /\ (PurchaseBuildCalled /\ MissingBuyerAddress) =>
           /\ error = "Buyer address is not set"
           /\ ~HasPurchase
           /\ locals = NoLocals
    /\ (PurchaseBuildCalled /\ ~MissingBuyerAddress /\ MissingUtxos) =>
           /\ error = "Buyer address has not enough utxos"
           /\ ~HasPurchase
           /\ locals = NoLocals
    /\ HasPurchase => ConsumesTwoDummies(PurchasePSBT)

\* the builder refused a buyer with three dummy UTXOs
C20_Witness ==
    /\ PurchaseBuildCalled
    /\ listing.buyer # Absent
    /\ Len(listing.buyer[1].buyerDummyUTXOs) = 3
    /\ error = "Buyer address has not enough utxos"

(***************************************************************************)
(* C21                                                                     *)
(***************************************************************************)
\* output i of the PSBT is a new dummy: DUMMY_UTXO_VALUE to the buyer payment address
IsNewDummy(psbt, i) ==
    /\ i \in DOMAIN psbt.txOutputs
    /\ OutputAddress(psbt, i) = Buyer.buyerAddress
    /\ OutputValue(psbt, i) = DUMMY_UTXO_VALUE

\* outputs 0, 1 and 2, none of which depends on the platform fee: the merged
\* dummy output, the receive output and the seller's output
LeadingOutputs(psbt) ==
    /\ Len(psbt.txOutputs) >= 3
    /\ OutputAddress(psbt, 1) = Buyer.buyerAddress
    /\ OutputValue(psbt, 1) = Dummies[1].value + Dummies[2].value
                                  + OffsetOf(listing.seller.ordItem)
    /\ OutputAddress(psbt, BUYING_PSBT_BUYER_RECEIVE_INDEX + 1) = Buyer.buyerTokenReceiveAddress
    /\ OutputValue(psbt, BUYING_PSBT_BUYER_RECEIVE_INDEX + 1) = ORDINALS_POSTAGE_VALUE
    /\ OutputAddress(psbt, 3) = listing.seller.sellerReceiveAddress
    /\ OutputValue(psbt, 3) = seller_payout(listing.seller.price, listing.seller.makerFeeBp,
                                            listing.seller.ordItem.outputValue)

\* C21: every purchase PSBT has two new dummy outputs of DUMMY_UTXO_VALUE to
\* the buyer payment address right after the platform fee output, at indices
\* 4 and 5 when the fee output is present and at 3 and 4 when it is
\* suppressed (output 3 is then a dummy and no fee output); nothing but one
\* change output follows them, and outputs 0, 1 and 2 are the same in both cases
C21_NewDummyOutputs ==
    HasPurchase =>
        LET p == PurchasePSBT
            k == BUYING_PSBT_PLATFORM_FEE_INDEX + 1
            first == IF FeePresent(p) THEN k + 1 ELSE k
        IN /\ LeadingOutputs(p)
           /\ IsNewDummy(p, first) /\ IsNewDummy(p, first + 1)
           /\ Len(p.txOutputs) \in {first + 1, first + 2}
           /\ FeePresent(p) => OutputAddress(p, k) = PlatformAddress(listing.network)
           /\ ~FeePresent(p) => OutputAddress(p, k) # PlatformAddress(listing.network)

\* a purchase with a fee address whose platform fee is suppressed: outputs 3
\* and 4 are the new dummies and output 5 is the change
C21_Witness ==
    /\ HasPurchase
    /\ platformFeeAddress # NoAddress
    /\ ~FeePresent(PurchasePSBT)
    /\ IsNewDummy(PurchasePSBT, 4) /\ IsNewDummy(PurchasePSBT, 5)
    /\ Len(PurchasePSBT.txOutputs) = 6

(***************************************************************************)
(* C22                                                                     *)
(***************************************************************************)
\* the running sum of the first k selected UTXOs reaches amount plus the fee
\* of base_vins + k inputs
ReachesThreshold(selected, k) ==
    SumValues(SubSeq(selected, 1, k)) >=
        args.amount + estimated_fee(args.vinsLength + k, args.voutsLength, args.feeRateTier)

\* the selection is a prefix of the eligible inscription-free UTXOs in
\* non-increasing order of value: each selected UTXO is an eligible one, none
\* is taken twice, and no eligible UTXO left out is worth more than one taken
DescendingPrefix(selected) ==
    /\ \A i \in DOMAIN selected : \E e \in Eligible : utxos[e] = selected[i]
    /\ \A i, j \in DOMAIN selected : i < j =>
           /\ selected[i] # selected[j]
           /\ selected[i].value >= selected[j].value
    /\ \A e \in Eligible :
           (\A i \in DOMAIN selected : selected[i] # utxos[e]) =>
               \A i \in DOMAIN selected : selected[i].value >= utxos[e].value

PaymentSelection ==
    paymentResult.status = "returned" =>
        LET selected == paymentResult.value
            n == Len(selected)
        IN /\ \A i \in DOMAIN selected : selected[i].value > DUMMY_UTXO_VALUE
           /\ DescendingPrefix(selected)
           /\ \A k \in 0..(n - 1) : ~ReachesThreshold(selected, k)
           /\ ~ReachesThreshold(selected, n) => n = Cardinality(Eligible)

ParentFails(tx, i) == getrawtransactionVerbose(tx.vin[i].txid).fails
ParentUnconfirmed(tx, i) ==
    ~ParentFails(tx, i) /\ getrawtransactionVerbose(tx.vin[i].txid).confirmations = 0
InputTainted(tx, i) ==
    \/ ParentUnconfirmed(tx, i)
    \/ getTokenByOutput(Outpoint(tx.vin[i].txid, tx.vin[i].vout)) # "null"

\* the condition of C23 for the check to be true
InscriptionAnswer(u) ==
    IF u.status.confirmed
    THEN getTokenByOutput(Outpoint(u.txid, u.vout)) \in {"item", "error"}
    ELSE LET tx == getrawtransactionVerbose(u.txid)
         IN ~tx.fails /\ \E i \in DOMAIN tx.vin : InputTainted(tx, i)

\* the node fails on the transaction of an unconfirmed UTXO, or on the parent
\* of an input before any input settles the check
NodeFailsFirst(u) ==
    /\ ~u.status.confirmed
    /\ LET tx == getrawtransactionVerbose(u.txid)
       IN \/ tx.fails
          \/ \E i \in DOMAIN tx.vin :
                 /\ ParentFails(tx, i)
                 /\ \A j \in 1..(i - 1) : ~ParentFails(tx, j) /\ ~InputTainted(tx, j)

\* C23: the check of a confirmed UTXO is true exactly when the indexer
\* returns a non-null item for its outpoint or errors; that of an unconfirmed
\* UTXO is true exactly when some input of its transaction has an unconfirmed
\* parent or an indexer answer for its outpoint that is non-null or an error;
\* it is false in every other case in which it returns (it throws when the
\* node fails before an input settles it)
C23_ContainsInscription ==
    checkedUtxo # Absent =>
        LET u == checkedUtxo[1]
        IN /\ containsResult \in {"yes", "no", "throw"}
           /\ containsResult = "throw" <=> NodeFailsFirst(u)
           /\ containsResult = "yes" => InscriptionAnswer(u)
           /\ containsResult = "no" => ~InscriptionAnswer(u)
           /\ u.status.confirmed => containsResult # "throw"

\* the check of an unconfirmed UTXO whose parent is unconfirmed and carries
\* no inscription is true
C23_Witness ==
    /\ checkedUtxo = Some(U8)
    /\ containsResult = "yes"
    /\ getTokenByOutput(Outpoint(TxidOf(103), 0)) = "null"

(***************************************************************************)
(* C24                                                                     *)
(***************************************************************************)
\* a provider errors during the check of the UTXO: the indexer on its
\* outpoint or on that of an input, or the node on its ancestry
IndexerErrors(u) ==
    IF u.status.confirmed
    THEN getTokenByOutput(Outpoint(u.txid, u.vout)) = "error"
    ELSE LET tx == getrawtransactionVerbose(u.txid)
         IN ~tx.fails /\ \E i \in DOMAIN tx.vin :
                getTokenByOutput(Outpoint(tx.vin[i].txid, tx.vin[i].vout)) = "error"

ProviderErrors(u) == IndexerErrors(u) \/ NodeFails(u)

NotSelected(result, u) ==
    result.status = "returned" => \A i \in DOMAIN result.value : ~SameUtxo(result.value[i], u)

\* C24 as stated: an error of the indexer or of the node during the check of
\* one UTXO makes the selection routines take it for inscription-bearing and
\* scan on: no selection is aborted, each returns what it returns for a list
\* in which those UTXOs carry inscriptions, and none returns such a UTXO
C24_Original ==
    /\ dummyResult.status # "idle" =>
           dummyResult.status = IF Cardinality(Qualifying) >= 2 THEN "returned" ELSE "null"
    /\ paymentResult.status # "ProviderError"
    /\ \A i \in DOMAIN utxos :
           ProviderErrors(utxos[i]) =>
               NotSelected(dummyResult, utxos[i]) /\ NotSelected(paymentResult, utxos[i])

\* C24, what the code does: an error of the indexer is taken for an
\* inscription and the scan goes on, and no UTXO on which a provider errors is
\* selected; an error of the node aborts the selection that reaches the UTXO
C24_IndexerFailClosed ==
    /\ \A i \in DOMAIN utxos :
           ProviderErrors(utxos[i]) =>
               NotSelected(dummyResult, utxos[i]) /\ NotSelected(paymentResult, utxos[i])
    /\ (\A i \in DOMAIN utxos : ~NodeFails(utxos[i])) =>
           /\ dummyResult.status # "ProviderError"
           /\ paymentResult.status # "ProviderError"
    /\ dummyResult.status # "idle" =>
           (dummyResult.status = "ProviderError" <=>
               \E i \in DOMAIN utxos :
                   /\ NodeFailsFirst(utxos[i])
                   /\ Cardinality({j \in Qualifying : j < i}) < 2)
    /\ paymentResult.status = "ProviderError" =>
           \E i \in DOMAIN utxos : NodeFailsFirst(utxos[i]) /\ utxos[i].value > DUMMY_UTXO_VALUE

\* the node fails on the first UTXO of a list that holds two clean dummies
\* after it, and the dummy selection throws
C24_Witness ==
    /\ utxos = <<U11, U2, U5>>
    /\ Cardinality(Qualifying) = 2
    /\ dummyResult.status = "ProviderError"

C25_AcceptedTwice ==
    /\ verifyCalls = 2
    /\ verifyResult.status = "returned"

(***************************************************************************)
(* C26                                                                     *)
(***************************************************************************)
\* C26 as stated: the fee a purchase PSBT is charged is
\* fee_rate(tier) * (180 * n_inputs + 34 * n_outputs + 10) for the input and
\* output counts of the PSBT as returned, with or without a change output
C26_Original ==
    HasPurchase =>
        locals.fee = estimated_fee(Len(PurchasePSBT.txInputs), Len(PurchasePSBT.txOutputs),
                                   Buyer.feeRateTier)

\* C26 as amended: the fee is computed before the change output is decided,
\* for the outputs then present and one change output more; it is
\* fee_rate(tier) * (180 * n_inputs + 34 * n_outputs + 10) for the counts of
\* the returned PSBT when the change output was added, and 34 * fee_rate(tier)
\* more than that when it was not
C26_FeeCharged ==
    HasPurchase =>
        LET p == PurchasePSBT
            rate == getFees(Buyer.feeRateTier)
        IN /\ locals.fee = rate * (180 * Len(p.txInputs) + 34 * (BaseOutputs(p) + 1) + 10)
           /\ ChangePresent(p) =>
                  locals.fee = estimated_fee(Len(p.txInputs), Len(p.txOutputs),
                                             Buyer.feeRateTier)
           /\ ~ChangePresent(p) =>
                  locals.fee = estimated_fee(Len(p.txInputs), Len(p.txOutputs),
                                             Buyer.feeRateTier) + 34 * rate

\* a purchase at 1 sat/vB without a change output, charged 34 more than the
\* estimate for its counts
C26_Witness ==
    /\ HasPurchase
    /\ ~ChangePresent(PurchasePSBT)
    /\ getFees(Buyer.feeRateTier) = 1
    /\ locals.fee = estimated_fee(Len(PurchasePSBT.txInputs), Len(PurchasePSBT.txOutputs),
                                  Buyer.feeRateTier) + 34

(***************************************************************************)
(* C27                                                                     *)
(***************************************************************************)
\* the instance the last get of session s returned
LastReturned(log) == log[Len(log)]

\* what holds in every state: at most one instance was ever built from the
\* environment, and none when the first call of the process was a set
LazyOnce ==
    /\ built <= 1
    /\ firstCall = "set" => built = 0
    /\ defaultInstance = Absent <=> firstCall = ""

\* what every call does: a get returns the instance in the variable and
\* leaves it there, building one from the environment only when no call came
\* before it; a set puts its argument into the variable and builds nothing
DefaultRPCStep ==
    \A s \in Sessions :
        rpcCalls'[s] # rpcCalls[s] =>
            IF returned'[s] # returned[s]
            THEN /\ returned'[s] = Append(returned[s], defaultInstance'[1])
                 /\ defaultInstance # Absent =>
                        (defaultInstance' = defaultInstance /\ built' = built)
                 /\ defaultInstance = Absent =>
                        /\ firstCall = ""
                        /\ defaultInstance' = Some(fromEnv(1))
                        /\ built' = 1
            ELSE /\ defaultInstance' # Absent
                 /\ defaultInstance'[1] \in SuppliedInstances
                 /\ built' = built

\* C27: the default RPC handle is built on the first getDefaultRPC only;
\* every later get returns that instance until setDefaultRPC(x), after which
\* every get returns x; a set before any get means that none is ever built
\* from the environment; with each get and set a single step of the process,
\* under every interleaving of the sessions at most one instance is built
C27_DefaultRPC == []LazyOnce /\ [][DefaultRPCStep]_vars

\* two sessions got the instance built from the environment, then one of
\* them replaced it and the other got the replacement
C27_Witness ==
    /\ built = 1
    /\ returned["s1"] = <<fromEnv(1)>>
    /\ rpcCalls["s1"] = 2
    /\ Len(returned["s2"]) = 2
    /\ returned["s2"][1] = fromEnv(1)
    /\ returned["s2"][2] \in SuppliedInstances

(***************************************************************************)
(* C28                                                                     *)
(***************************************************************************)
\* the outpoints a selection returned
SelectedOutpoints(result) ==
    {Outpoint(result.value[i].txid, result.value[i].vout) : i \in DOMAIN result.value}

BothSelected ==
    /\ dummyResult.status = "returned"
    /\ paymentResult.status = "returned"

\* C28 as stated: the dummy selection and the payment selection of one UTXO
\* list never return the same outpoint
C28_Original ==
    BothSelected => SelectedOutpoints(dummyResult) \cap SelectedOutpoints(paymentResult) = {}

\* C28, what the code ensures: a UTXO that both selections return has a value
\* above DUMMY_UTXO_VALUE and at most DUMMY_UTXO_MAX_VALUE, the values both
\* filters let through; the two selections share no other UTXO
C28_SharedOnlyInOverlap ==
    BothSelected =>
        \A i \in DOMAIN dummyResult.value, j \in DOMAIN paymentResult.value :
            SameUtxo(dummyResult.value[i], paymentResult.value[j]) =>
                /\ paymentResult.value[j].value > DUMMY_UTXO_VALUE
                /\ paymentResult.value[j].value <= DUMMY_UTXO_MAX_VALUE

\* a wallet of 700 and 1000 sat: both UTXOs are the dummies and both are the
\* payment of 1500
C28_Witness ==
    /\ utxos = <<U2, U5>>
    /\ BothSelected
    /\ args.amount = 1500
    /\ SelectedOutpoints(dummyResult) = SelectedOutpoints(paymentResult)
    /\ Cardinality(SelectedOutpoints(dummyResult)) = 2

(***************************************************************************)
(* C29                                                                     *)
(***************************************************************************)
\* the PSBT of the request has the input and the output of the listing PSBT
\* the builder stored, and the request asks the price of the listing
UnmodifiedListing ==
    /\ listing.seller.unsignedListingPSBTBase64 # Absent
    /\ PostedPSBT.txInputs = fromBase64(listing.seller.unsignedListingPSBTBase64[1]).txInputs
    /\ PostedPSBT.txOutputs = fromBase64(listing.seller.unsignedListingPSBTBase64[1]).txOutputs
    /\ Request.price = listing.seller.price

\* the verification got as far as the price check
PriceCheckReached ==
    verifyResult.status \in {"returned", "Invalid price", "Invalid sellerReceiveAddress",
                             "Invalid seller address", "TypeError"}

floor_bp(p, m) == (p \div 10000) * m + ((p % 10000) * m) \div 10000

\* C29: an unmodified listing PSBT built with price p and maker fee m passes
\* the price check of the verification for req.price = p exactly when
\* floor(p * m / 10000) = floor(p * m' / 10000), m' being the maker fee of the
\* marketplace-fee provider and 0 without one; the maker fee recorded in the
\* listing state counts for nothing else
C29_PriceCheckMakerFee ==
    (VerifyCalled /\ UnmodifiedListing /\ PriceCheckReached) =>
        (verifyResult.status # "Invalid price"
            <=> floor_bp(listing.seller.price, listing.seller.makerFeeBp)
                    = floor_bp(listing.seller.price, maker_fee_bp))

\* a listing of 99 sat recorded without maker fee passes the price check of
\* a marketplace that charges 100 bp: both fees round down to 0
C29_Witness ==
    /\ VerifyCalled /\ UnmodifiedListing
    /\ listing.seller.price = 99
    /\ listing.seller.makerFeeBp = 0
    /\ maker_fee_bp = 100
    /\ verifyResult.status = "returned"

\* a listing recorded at 100 bp fails the price check of a marketplace
\* without fee provider
C29_Rejected ==
    /\ VerifyCalled /\ UnmodifiedListing
    /\ listing.seller.makerFeeBp = 100
    /\ maker_fee_bp = 0
    /\ verifyResult.status = "Invalid price"

(***************************************************************************)
(* C30: the PSBT that creates two dummy UTXOs                              *)
(***************************************************************************)
CreateCalled == createResult # Absent

\* the inscription-free UTXOs of the list, in the given order
InscriptionFree == SelectSeq(utxos, LAMBDA u : ~contains_inscription(u))

\* the estimated fee of n inputs, two outputs and the change output
create_fee(n, tier) == estimated_fee(n, 2 + 1, tier)

RECURSIVE PrefixTotal(_, _)
PrefixTotal(s, k) == IF k = 0 THEN 0 ELSE s[k].value + PrefixTotal(s, k - 1)

\* the numbers of leading inscription-free UTXOs that pay two dummies and the
\* fee of spending them
FundingPrefixes(tier) ==
    {k \in 1..Len(InscriptionFree) :
        PrefixTotal(InscriptionFree, k) >= 2 * 600 + create_fee(k, tier)}

\* the input count of the build: the shortest funding prefix, every
\* inscription-free UTXO when there is none
FundingCount(tier) ==
    IF FundingPrefixes(tier) = {} THEN Len(InscriptionFree) ELSE Least(FundingPrefixes(tier))

\* the inscription-free UTXOs total less than two dummies and the fee
FundsShort(tier) ==
    SumValues(InscriptionFree) < 2 * 600 + create_fee(FundingCount(tier), tier)

\* the returned PSBT: inputs, outputs and the fee it leaves
CreatePsbtShape(psbt, address, tier) ==
    LET n == Len(psbt.txInputs)
        inTotal == PrefixTotal(InscriptionFree, n)
        remainder == inTotal - 2 * 600 - create_fee(n, tier)
    IN /\ n >= 1 /\ n <= Len(InscriptionFree)
       /\ \A i \in 1..n :
              /\ psbt.txInputs[i].hash = HashFromTxid(InscriptionFree[i].txid)
              /\ psbt.txInputs[i].index = InscriptionFree[i].vout
       /\ Len(psbt.txOutputs) \in {2, 3}
       /\ \A i \in 1..2 :
              psbt.txOutputs[i] = [script |-> toOutputScript(address, bitcoin), value |-> 600]
       /\ Len(psbt.txOutputs) = 3 <=> remainder > 580
       /\ Len(psbt.txOutputs) = 3 =>
              psbt.txOutputs[3] = [script |-> toOutputScript(address, bitcoin),
                                   value |-> remainder]
       /\ inTotal - SumValues(psbt.txOutputs) >= create_fee(n, tier)

\* every inscription check answers and a P2SH address comes with its key
CreateAnswered ==
    /\ \A i \in DOMAIN utxos : ~NodeFails(utxos[i])
    /\ isP2SHAddress(createArgs[1].address, bitcoin) => createArgs[1].buyerPublicKey # Absent

C30_FirstSuffices ==
    /\ CreateCalled
    /\ utxos = <<U13, U10, U2>>
    /\ createArgs[1].feeRateTier = "fastestFee"
    /\ createResult[1].error = ""
    /\ Len(createResult[1].psbt.txInputs) = 1
    /\ Len(createResult[1].psbt.txOutputs) = 2

\* the inscription-free UTXOs do not pay two dummies and the fee
C30_Fails ==
    /\ CreateCalled
    /\ utxos = <<U6, U4, U10>>
    /\ createResult[1].error = "You might have pending transactions or not enough funds"

====
